---------------------------- MODULE Spec2Model ----------------------------
(***************************************************************************)
(* A model of dvg_qdeviceio (src/src/dvg_qdeviceio.py): class QDeviceIO    *)
(* with its two workers, Worker_DAQ and Worker_jobs, each in a QThread of  *)
(* its own, and the main thread that calls the QDeviceIO methods.          *)
(*                                                                         *)
(* Three processes take steps:                                             *)
(*   - the main thread (main.pc): the caller of create_worker_*, start_*,  *)
(*     quit_*, send, add_to_jobs_queue, process_jobs_queue, wake_up_DAQ,   *)
(*     pause_DAQ and unpause_DAQ;                                          *)
(*   - the thread of Worker_jobs (worker_jobs.pc): _do_work, _perform_jobs;*)
(*   - the thread of Worker_DAQ (worker_DAQ.pc): _do_work, _perform_DAQ.   *)
(*                                                                         *)
(* A QWaitCondition keeps no memory: wakeAll() wakes the threads that are  *)
(* waiting at that moment and is lost otherwise.  time.sleep() and the     *)
(* 100 ms single-shot timers are delays, not synchronisation: the model    *)
(* is untimed, so every interleaving that a slow or a fast thread can      *)
(* produce is a behaviour.                                                 *)
(***************************************************************************)
EXTENDS Integers, Sequences, FiniteSets, TLC

\* Bounds of the model (not program constants): the calls and the work of
\* one run.  A run of one worker alone is given the larger budget.
MaxJobs == 3            \* jobs put on the queue (Worker_jobs alone)
MaxDrains == 2          \* _perform_jobs calls (Worker_jobs alone)
MaxCycles == 4          \* _perform_DAQ calls (Worker_DAQ alone)
MaxPauseCalls == 2      \* pause_DAQ and unpause_DAQ calls (Worker_DAQ alone)
MaxCritical == 2        \* largest critical_not_alive_count created
BothJobs == 1           \* the same budgets in a run of both workers
BothDrains == 1
BothCycles == 1
BothPauseCalls == 1
BothCritical == 1       \* largest critical_not_alive_count created (both workers)
PauseCycles == 1        \* _perform_DAQ calls in a run of pause requests
PausePauseCalls == 3    \* pause_DAQ and unpause_DAQ calls in a run of pause requests
WakeCycles == 2         \* _perform_DAQ calls in a run of counted wake-ups
WakeCalls == 3          \* wake_up_DAQ calls in a run of counted wake-ups
WakePauseCalls == 1     \* pause_DAQ and unpause_DAQ calls in such a run
WakeCritical == 1       \* largest critical_not_alive_count in such a run
ReqJobs == 2            \* jobs put on the queue in a run of counted drain requests
ReqDrains == 2          \* _perform_jobs calls in such a run
ReqCalls == 3           \* process_jobs_queue and send calls in such a run

VARIABLES
    dev,          \* the device: is_alive, mutex (the set of workers holding dev.mutex)
    qdev,         \* QDeviceIO: the counters and the two QThreads
    signals,      \* how often each Signal of QDeviceIO has been emitted
    worker_jobs,  \* qdev.worker_jobs and the position of its thread
    worker_DAQ,   \* qdev.worker_DAQ and the position of its thread
    lim,          \* the budgets of this run (set by Init, never changed)
    main,         \* the main thread: its position, the last call that returned, its value
    hist          \* history of the run (not program state)

vars == <<dev, qdev, signals, worker_jobs, worker_DAQ, main, hist, lim>>

-----------------------------------------------------------------------------
(* Data *)

\* Worker_jobs._sentinel (None), as a queue entry of the shape of a job.
Sentinel == [id |-> 0, func |-> "None"]

\* The tuple (instruction, *pass_args) that _add_to_queue puts on the queue.
\* id numbers the jobs in the order of their put(); func tells whether the
\* instruction is callable or not (e.g. a string).
Job(n, f) == [id |-> n, func |-> f]

Instructions == {"callable", "str"}

JobIds(s) == [i \in 1..Len(s) |-> s[i].id]

\* The entries of a sequence that are jobs, in their order.
RECURSIVE JobsOf(_)
JobsOf(s) ==
    IF s = <<>> THEN <<>>
    ELSE IF Head(s) # Sentinel THEN <<Head(s)>> \o JobsOf(Tail(s))
         ELSE JobsOf(Tail(s))

RECURSIVE CountSentinels(_)
CountSentinels(s) ==
    IF s = <<>> THEN 0
    ELSE (IF Head(s) = Sentinel THEN 1 ELSE 0) + CountSentinels(Tail(s))

\* <<a, a+1, ..., b>>
Range1(a, b) == [i \in 1..(b - a + 1) |-> a + i - 1]

-----------------------------------------------------------------------------
(* Initial state: QDeviceIO(dev) constructed, no worker created yet.        *)
(* qdev.worker_jobs is Uninitialized_Worker_jobs, a Worker_jobs instance    *)
(* itself (pc "None" stands for `worker_jobs is Uninitialized_Worker_jobs`).*)

\* (An __init__ that does not put the sentinel on the queue.)
Worker_jobs_init_no_sentinel(f, pc) ==
    [ jobs_function |-> f,
      has_started   |-> FALSE,
      has_stopped   |-> FALSE,
      running       |-> TRUE,
      queue         |-> <<>>,
      pc            |-> pc,
      init          |-> TRUE,
      i             |-> 0,
      job           |-> Sentinel,
      stop_timer    |-> FALSE ]

\* Worker_jobs.__init__: the attributes of a fresh Worker_jobs; the queue
\* holds the sentinel.
Worker_jobs_init(f, pc) ==
    [ jobs_function |-> f,
      has_started   |-> FALSE,
      has_stopped   |-> FALSE,
      running       |-> TRUE,
      queue         |-> <<Sentinel>>,
      pc            |-> pc,
      init          |-> TRUE,        \* local `init` of _do_work
      i             |-> 0,           \* loop variable _i of _perform_jobs
      job           |-> Sentinel,    \* loop variable job of _perform_jobs
      stop_timer    |-> FALSE ]      \* QTimer.singleShot(100, ...stopped.wakeAll) pending

DAQ_TRIGGER == {"INTERNAL_TIMER", "SINGLE_SHOT_WAKE_UP", "CONTINUOUS"}

Worker_DAQ_init(trigger, f, k, pc) ==
    [ DAQ_trigger              |-> trigger,
      DAQ_function             |-> f,
      critical_not_alive_count |-> k,
      has_started      |-> FALSE,
      has_stopped      |-> FALSE,
      QET_valid        |-> FALSE,    \* self._QET_interval.isValid()
      timer_active     |-> FALSE,    \* self._timer (INTERNAL_TIMER) is running
      running          |-> TRUE,     \* SINGLE_SHOT_WAKE_UP and CONTINUOUS
      pause            |-> "None",   \* CONTINUOUS
      paused           |-> "None",   \* CONTINUOUS
      pc               |-> pc,
      init             |-> TRUE,     \* local `init` of _do_work
      events           |-> <<>>,     \* signals queued to the worker's thread
      stop_timer       |-> FALSE ]   \* QTimer.singleShot(100, ...stopped.wakeAll) pending

QDeviceIO_init ==
    [ update_counter_DAQ       |-> 0,
      update_counter_jobs      |-> 0,
      not_alive_counter_DAQ    |-> 0,
      obtained_DAQ_interval_ms |-> "nan",
      obtained_DAQ_rate_Hz     |-> "nan",
      thread_DAQ               |-> "None",
      thread_jobs              |-> "None" ]

LimJobs ==
    [jobs |-> MaxJobs, drains |-> MaxDrains, cycles |-> 0, pauses |-> 0,
     critical |-> 0, wakes |-> 0]
LimDAQ ==
    [jobs |-> 0, drains |-> 0, cycles |-> MaxCycles, pauses |-> MaxPauseCalls,
     critical |-> MaxCritical, wakes |-> 0]
LimBoth ==
    [jobs |-> BothJobs, drains |-> BothDrains, cycles |-> BothCycles,
     pauses |-> BothPauseCalls, critical |-> BothCritical, wakes |-> 0]

\* The main thread between two calls of QDeviceIO methods. main.call and
\* main.returned hold the call that has just returned and its value, until
\* the main thread makes its next call.
main_ready == [pc |-> "ready", returned |-> "None", call |-> "None"]

InitWith(l) ==
    /\ dev \in [is_alive : BOOLEAN, mutex : {{}}]
    /\ qdev = QDeviceIO_init
    /\ signals = [DAQ_updated |-> 0, DAQ_paused |-> 0, connection_lost |-> 0,
                  jobs_updated |-> 0]
    /\ worker_jobs = Worker_jobs_init("None", "None")
    /\ worker_DAQ = Worker_DAQ_init("INTERNAL_TIMER", "None", 1, "None")
    /\ main = main_ready
    /\ hist = [n_enq |-> 0, executed |-> <<>>, drain_from |-> 0, drain_enq |-> 0,
               queries |-> <<>>, n_pause_calls |-> 0, stop_requested |-> FALSE,
               sent |-> {}, jobs_waited |-> FALSE, refused |-> {},
               unpaused |-> FALSE, wake_ups |-> 0, woke |-> 0,
               woke_nonempty |-> 0]
    /\ lim = l

Init == InitWith(LimBoth)

-----------------------------------------------------------------------------
(* QWaitCondition.wakeAll(): wakes a thread that is in wait(), else lost *)

\* (A condition with memory: a wakeAll() ahead of the wait is kept.)
jobs_wakeAll_kept(w) ==
    IF w.pc \in {"wait", "before_wait"} THEN [w EXCEPT !.pc = "woken"] ELSE w

\* self._qwc.wakeAll() of Worker_jobs: the worker's position afterwards.
jobs_wakeAll(w) == IF w.pc = "wait" THEN [w EXCEPT !.pc = "woken"] ELSE w

\* qdev._qwc_worker_jobs_started.wakeAll(): the main thread afterwards.
jobs_started_wakeAll(m) ==
    IF m.pc = "start_jobs_wait" THEN [m EXCEPT !.pc = "start_jobs_sleep"] ELSE m

\* qdev._qwc_worker_jobs_stopped.wakeAll(): the main thread afterwards.
jobs_stopped_wakeAll(m) ==
    IF m.pc = "quit_jobs_wait" THEN [m EXCEPT !.pc = "quit_jobs_quit"] ELSE m

-----------------------------------------------------------------------------
(* Main thread: the jobs side of QDeviceIO *)

\* QDeviceIO.create_worker_jobs(jobs_function): a fresh Worker_jobs and its
\* QThread.  (Called at most once; dev is an attached device.)
create_worker_jobs(f) ==
    /\ main.pc = "ready"
    /\ lim.jobs > 0
    /\ worker_jobs.pc = "None"
    /\ worker_jobs' = Worker_jobs_init(f, "created")
    /\ qdev' = [qdev EXCEPT !.thread_jobs = "created"]
    /\ main' = main_ready
    /\ UNCHANGED <<dev, signals, hist, worker_DAQ, lim>>

\* QDeviceIO.start_worker_jobs, up to self._thread_jobs.start(priority).
\* (Called on a created worker whose thread has not been started before.)
start_worker_jobs ==
    /\ main.pc = "ready"
    /\ qdev.thread_jobs = "created"
    /\ IF ~dev.is_alive
       THEN /\ main' = [main EXCEPT !.returned = "False", !.call = "start_worker_jobs"]
            /\ hist' = [hist EXCEPT !.refused = @ \cup {"jobs"}]
            /\ UNCHANGED <<qdev, worker_jobs>>
       ELSE /\ qdev' = [qdev EXCEPT !.thread_jobs = "running"]
            /\ worker_jobs' = [worker_jobs EXCEPT !.pc = "while"]
            /\ main' = [main_ready EXCEPT !.pc = "start_jobs_thread"]
            /\ UNCHANGED hist
    /\ UNCHANGED <<dev, signals, worker_DAQ, lim>>

\* start_worker_jobs enters self._qwc_worker_jobs_started.wait(...).
start_worker_jobs_wait ==
    /\ main.pc = "start_jobs_thread"
    /\ main' = [main EXCEPT !.pc = "start_jobs_wait"]
    /\ UNCHANGED <<dev, qdev, signals, worker_jobs, hist, worker_DAQ, lim>>

\* start_worker_jobs after the wait: time.sleep(0.05); return True.
start_worker_jobs_return ==
    /\ main.pc = "start_jobs_sleep"
    /\ main' = [pc |-> "ready", returned |-> "True", call |-> "start_worker_jobs"]
    /\ UNCHANGED <<dev, qdev, signals, worker_jobs, hist, worker_DAQ, lim>>

\* (A put() on the queue that wakes the worker as well.)
add_to_queue_and_wake(w, n, f) ==
    jobs_wakeAll([w EXCEPT !.queue = Append(@, Job(n, f))])

\* (A queue that is not first-in, first-out: put() at the head.)
add_to_queue_at_head(w, n, f) == [w EXCEPT !.queue = <<Job(n, f)>> \o @]

\* Worker_jobs._add_to_queue: self._queue.put((instruction, *pass_args)).
add_to_queue(w, n, f) == [w EXCEPT !.queue = Append(@, Job(n, f))]

\* QDeviceIO.add_to_jobs_queue(instruction, pass_args).
add_to_jobs_queue(f) ==
    /\ main.pc = "ready"
    /\ hist.n_enq < lim.jobs
    /\ IF worker_jobs.pc # "None"
       THEN /\ worker_jobs' = add_to_queue(worker_jobs, hist.n_enq + 1, f)
            /\ hist' = [hist EXCEPT !.n_enq = @ + 1]
       ELSE UNCHANGED <<worker_jobs, hist>>
    /\ main' = main_ready
    /\ UNCHANGED <<dev, qdev, signals, worker_DAQ, lim>>

\* The wake-up requests counted (where lim.wakes > 0): one more call of
\* _process_queue, which has or has not found the worker in its wait, with
\* or without a job on the queue.
jobs_request_counted(h) ==
    IF lim.wakes > 0
    THEN [h EXCEPT
            !.wake_ups = @ + 1,
            !.woke = IF worker_jobs.pc = "wait" THEN @ + 1 ELSE @,
            !.woke_nonempty =
               IF worker_jobs.pc = "wait" /\ JobsOf(worker_jobs.queue) # <<>>
               THEN @ + 1 ELSE @]
    ELSE h

\* (A process_jobs_queue that takes dev.mutex for its wakeAll().)
process_jobs_queue_locked ==
    /\ main.pc = "ready"
    /\ qdev.update_counter_jobs < lim.drains
    /\ lim.wakes > 0 => hist.wake_ups < lim.wakes
    /\ dev.mutex = {}
    /\ IF worker_jobs.pc # "None"
       THEN /\ worker_jobs' = jobs_wakeAll(worker_jobs)
            /\ hist' = jobs_request_counted(hist)
       ELSE UNCHANGED <<worker_jobs, hist>>
    /\ main' = main_ready
    /\ UNCHANGED <<dev, qdev, signals, worker_DAQ, lim>>

\* QDeviceIO.process_jobs_queue: Worker_jobs._process_queue.
process_jobs_queue ==
    /\ main.pc = "ready"
    /\ qdev.update_counter_jobs < lim.drains
    /\ lim.wakes > 0 => hist.wake_ups < lim.wakes
    /\ IF worker_jobs.pc # "None"
       THEN /\ worker_jobs' = jobs_wakeAll(worker_jobs)
            /\ hist' = jobs_request_counted(hist)
       ELSE UNCHANGED <<worker_jobs, hist>>
    /\ main' = main_ready
    /\ UNCHANGED <<dev, qdev, signals, worker_DAQ, lim>>

\* QDeviceIO.send, first half: Worker_jobs._send calls _add_to_queue.
send_add(f) ==
    /\ main.pc = "ready"
    /\ hist.n_enq < lim.jobs
    /\ qdev.update_counter_jobs < lim.drains
    /\ lim.wakes > 0 => hist.wake_ups < lim.wakes
    /\ IF worker_jobs.pc # "None"
       THEN /\ worker_jobs' = add_to_queue(worker_jobs, hist.n_enq + 1, f)
            /\ hist' = [hist EXCEPT
                          !.n_enq = @ + 1,
                          !.sent = IF /\ hist.jobs_waited
                                      /\ worker_jobs.running
                                   THEN @ \cup {hist.n_enq + 1} ELSE @]
            /\ main' = [main_ready EXCEPT !.pc = "send_process"]
       ELSE /\ main' = main_ready
            /\ UNCHANGED <<worker_jobs, hist>>
    /\ UNCHANGED <<dev, qdev, signals, worker_DAQ, lim>>

\* QDeviceIO.send, second half: Worker_jobs._send calls _process_queue.
send_process ==
    /\ main.pc = "send_process"
    /\ worker_jobs' = jobs_wakeAll(worker_jobs)
    /\ hist' = jobs_request_counted(hist)
    /\ main' = [main EXCEPT !.pc = "ready"]
    /\ UNCHANGED <<dev, qdev, signals, worker_DAQ, lim>>

\* Worker_jobs._stop(), called by quit_worker_jobs from the main thread.
jobs_stop(w) == jobs_wakeAll([w EXCEPT !.running = FALSE])

\* (A quit_worker_jobs that does not look at _has_started.)
quit_worker_jobs_unchecked ==
    /\ main.pc = "ready"
    /\ IF \/ qdev.thread_jobs = "None"
          \/ worker_jobs.pc = "None"
       THEN /\ main' = [main EXCEPT !.returned = "True", !.call = "quit_worker_jobs"]
            /\ UNCHANGED worker_jobs
       ELSE IF qdev.thread_jobs = "finished"
       THEN /\ main' = [main EXCEPT !.returned = "True", !.call = "quit_worker_jobs"]
            /\ UNCHANGED worker_jobs
       ELSE IF ~worker_jobs.has_stopped
       THEN /\ worker_jobs' = jobs_stop(worker_jobs)
            /\ main' = [main_ready EXCEPT !.pc = "quit_jobs_stop"]
       ELSE /\ main' = [main_ready EXCEPT !.pc = "quit_jobs_quit"]
            /\ UNCHANGED worker_jobs
    /\ UNCHANGED <<dev, qdev, signals, hist, worker_DAQ, lim>>

\* QDeviceIO.quit_worker_jobs, up to and including self.worker_jobs._stop().
quit_worker_jobs ==
    /\ main.pc = "ready"
    /\ IF \/ qdev.thread_jobs = "None"
          \/ worker_jobs.pc = "None"
          \/ ~worker_jobs.has_started
       THEN /\ main' = [main EXCEPT !.returned = "True", !.call = "quit_worker_jobs"]
            /\ UNCHANGED worker_jobs
       ELSE IF qdev.thread_jobs = "finished"
       THEN /\ main' = [main EXCEPT !.returned = "True", !.call = "quit_worker_jobs"]
            /\ UNCHANGED worker_jobs
       ELSE IF ~worker_jobs.has_stopped
       THEN /\ worker_jobs' = jobs_stop(worker_jobs)
            /\ main' = [main_ready EXCEPT !.pc = "quit_jobs_stop"]
       ELSE /\ main' = [main_ready EXCEPT !.pc = "quit_jobs_quit"]
            /\ UNCHANGED worker_jobs
    /\ UNCHANGED <<dev, qdev, signals, hist, worker_DAQ, lim>>

\* quit_worker_jobs enters self._qwc_worker_jobs_stopped.wait(...).
quit_worker_jobs_wait ==
    /\ main.pc = "quit_jobs_stop"
    /\ main' = [main EXCEPT !.pc = "quit_jobs_wait"]
    /\ UNCHANGED <<dev, qdev, signals, worker_jobs, hist, worker_DAQ, lim>>

\* quit_worker_jobs: self._thread_jobs.quit().
quit_worker_jobs_quit ==
    /\ main.pc = "quit_jobs_quit"
    /\ qdev' = [qdev EXCEPT !.thread_jobs = IF @ = "running" THEN "quit" ELSE @]
    /\ main' = [main EXCEPT !.pc = "quit_jobs_join"]
    /\ UNCHANGED <<dev, signals, worker_jobs, hist, worker_DAQ, lim>>

\* quit_worker_jobs: self._thread_jobs.wait(2000) and the return.  The wait
\* returns True once the thread has finished and False on its timeout.
quit_worker_jobs_join ==
    /\ main.pc = "quit_jobs_join"
    /\ \/ /\ qdev.thread_jobs = "finished"
          /\ main' = [pc |-> "ready", returned |-> "True", call |-> "quit_worker_jobs"]
       \/ /\ qdev.thread_jobs # "finished"
          /\ main' = [pc |-> "ready", returned |-> "False", call |-> "quit_worker_jobs"]
    /\ UNCHANGED <<dev, qdev, signals, worker_jobs, hist, worker_DAQ, lim>>

-----------------------------------------------------------------------------
(* dev.mutex *)

\* QtCore.QMutexLocker(self.dev.mutex): blocks while another thread holds it.
\* (A lock that is granted although it is held.)
mutex_always_free(who) == who \notin dev.mutex

mutex_can_lock(who) == dev.mutex = {}

mutex_lock(d, who) == [d EXCEPT !.mutex = @ \cup {who}]

\* locker.unlock()
mutex_unlock(d, who) == [d EXCEPT !.mutex = @ \ {who}]

-----------------------------------------------------------------------------
(* The thread of Worker_jobs: Worker_jobs._do_work *)

\* `while self._running:` and, inside the loop, `if init:`.
jobs_do_work_while ==
    /\ worker_jobs.pc = "while"
    /\ worker_jobs' =
         [worker_jobs EXCEPT !.pc = IF ~worker_jobs.running THEN "stopping"
                                    ELSE IF worker_jobs.init THEN "confirm"
                                    ELSE "before_wait"]
    /\ UNCHANGED <<dev, qdev, signals, main, hist, worker_DAQ, lim>>

\* confirm_has_started: time.sleep(0.05), then
\* self.qdev._qwc_worker_jobs_started.wakeAll().
jobs_confirm_has_started ==
    /\ worker_jobs.pc = "confirm"
    /\ main' = jobs_started_wakeAll(main)
    /\ worker_jobs' = [worker_jobs EXCEPT !.pc = "confirm_flag"]
    /\ UNCHANGED <<dev, qdev, signals, hist, worker_DAQ, lim>>

\* confirm_has_started: self._has_started = True; then init = False.
jobs_confirm_flag ==
    /\ worker_jobs.pc = "confirm_flag"
    /\ worker_jobs' = [worker_jobs EXCEPT !.has_started = TRUE, !.init = FALSE,
                                          !.pc = "before_wait"]
    /\ UNCHANGED <<dev, qdev, signals, main, hist, worker_DAQ, lim>>

\* The worker enters self._qwc.wait(self._mutex_wait).
jobs_wait ==
    /\ worker_jobs.pc = "before_wait"
    /\ worker_jobs' = [worker_jobs EXCEPT !.pc = "wait"]
    /\ hist' = [hist EXCEPT !.jobs_waited = TRUE]
    /\ UNCHANGED <<dev, qdev, signals, main, worker_DAQ, lim>>

\* (A return from the wait that does not look at _running.)
jobs_woken_unchecked ==
    /\ worker_jobs.pc = "woken"
    /\ worker_jobs' = [worker_jobs EXCEPT !.pc = "lock"]
    /\ UNCHANGED <<dev, qdev, signals, main, hist, worker_DAQ, lim>>

\* Back from the wait: `if self._running: self._perform_jobs()`.
jobs_woken ==
    /\ worker_jobs.pc = "woken"
    /\ worker_jobs' = [worker_jobs EXCEPT !.pc = IF worker_jobs.running
                                                 THEN "lock" ELSE "while"]
    /\ UNCHANGED <<dev, qdev, signals, main, hist, worker_DAQ, lim>>

\* The loop has ended: QTimer.singleShot(100, ..._stopped.wakeAll) and
\* self._has_stopped = True; _do_work returns to the thread's event loop.
jobs_has_stopped ==
    /\ worker_jobs.pc = "stopping"
    /\ worker_jobs' = [worker_jobs EXCEPT !.stop_timer = TRUE,
                                          !.has_stopped = TRUE, !.pc = "evloop"]
    /\ UNCHANGED <<dev, qdev, signals, main, hist, worker_DAQ, lim>>

\* The event loop of the thread fires the single-shot timer:
\* self.qdev._qwc_worker_jobs_stopped.wakeAll().
jobs_stop_timer_fires ==
    /\ worker_jobs.pc = "evloop"
    /\ worker_jobs.stop_timer
    /\ qdev.thread_jobs = "running"
    /\ worker_jobs' = [worker_jobs EXCEPT !.stop_timer = FALSE]
    /\ main' = jobs_stopped_wakeAll(main)
    /\ UNCHANGED <<dev, qdev, signals, hist, worker_DAQ, lim>>

\* The event loop of the thread ends after QThread.quit(): the thread has
\* finished.  (A worker whose _do_work was left by an exception is back in
\* the event loop as well.)
jobs_thread_finishes ==
    /\ worker_jobs.pc \in {"evloop", "crashed"}
    /\ qdev.thread_jobs = "quit"
    /\ qdev' = [qdev EXCEPT !.thread_jobs = "finished"]
    /\ UNCHANGED <<dev, signals, worker_jobs, main, hist, worker_DAQ, lim>>

-----------------------------------------------------------------------------
(* Worker_jobs._perform_jobs *)

\* (A _perform_jobs that counts and begins without waiting for dev.mutex.)
perform_jobs_lock_not_waited ==
    /\ worker_jobs.pc = "lock"
    /\ dev' = mutex_lock(dev, "jobs")
    /\ qdev' = [qdev EXCEPT !.update_counter_jobs = @ + 1]
    /\ worker_jobs' = [worker_jobs EXCEPT !.i = 0, !.pc = "get"]
    /\ hist' = [hist EXCEPT !.drain_from = Len(hist.executed),
                            !.drain_enq = hist.n_enq]
    /\ UNCHANGED <<signals, main, worker_DAQ, lim>>

\* locker = QtCore.QMutexLocker(self.dev.mutex); update_counter_jobs += 1;
\* the first `for _i in range(2)` begins.
perform_jobs_lock ==
    /\ worker_jobs.pc = "lock"
    /\ mutex_can_lock("jobs")
    /\ dev' = mutex_lock(dev, "jobs")
    /\ qdev' = [qdev EXCEPT !.update_counter_jobs = @ + 1]
    /\ worker_jobs' = [worker_jobs EXCEPT !.i = 0, !.pc = "get"]
    /\ hist' = [hist EXCEPT !.drain_from = Len(hist.executed),
                            !.drain_enq = hist.n_enq]
    /\ UNCHANGED <<signals, main, worker_DAQ, lim>>

\* An exception leaves _perform_jobs and _do_work: the loop of the worker is
\* gone.  The QMutexLocker dies with the frame, which the traceback may keep
\* alive: dev.mutex is released or stays locked.
jobs_exception(w) == [w EXCEPT !.pc = "crashed"]

\* One step of `for job in iter(self._queue.get_nowait, self._sentinel)`:
\* get_nowait() takes the head of the queue (queue.Empty on an empty queue);
\* the sentinel ends the inner loop.
perform_jobs_get ==
    /\ worker_jobs.pc = "get"
    /\ IF worker_jobs.queue = <<>>
       THEN /\ worker_jobs' = jobs_exception(worker_jobs)
            /\ dev' \in {dev, mutex_unlock(dev, "jobs")}
       ELSE /\ worker_jobs' =
                 [worker_jobs EXCEPT
                    !.queue = Tail(@),
                    !.job = Head(worker_jobs.queue),
                    !.pc = IF Head(worker_jobs.queue) = Sentinel
                           THEN "put" ELSE "job"]
            /\ UNCHANGED dev
    /\ UNCHANGED <<qdev, signals, main, hist, worker_DAQ, lim>>

\* (A loop body that calls func whether it is callable or not.)
job_outcomes_all_called(w) ==
    IF w.jobs_function = "None" THEN {"done", "caught"} ELSE {"done", "uncaught"}

\* The outcomes of handling job = (func, *args) in the body of the loop:
\*   jobs_function is None and func is callable: func(*args) returns
\*       ("done") or raises, which is caught and reported ("caught");
\*   jobs_function is None and func is not callable: reported ("illegal");
\*   otherwise self.jobs_function(func, args) returns ("done") or raises,
\*       which nothing catches ("uncaught").
job_outcomes(w) ==
    IF w.jobs_function = "None"
    THEN IF w.job.func = "callable" THEN {"done", "caught"} ELSE {"illegal"}
    ELSE {"done", "uncaught"}

\* The body of the inner loop for the job taken.
perform_jobs_job ==
    /\ worker_jobs.pc = "job"
    /\ \E out \in job_outcomes(worker_jobs) :
         /\ hist' = [hist EXCEPT !.executed =
                        Append(@, [id |-> worker_jobs.job.id, outcome |-> out])]
         /\ IF out = "uncaught"
            THEN /\ worker_jobs' = jobs_exception(worker_jobs)
                 /\ dev' \in {dev, mutex_unlock(dev, "jobs")}
            ELSE /\ worker_jobs' = [worker_jobs EXCEPT !.pc = "get"]
                 /\ UNCHANGED dev
    /\ UNCHANGED <<qdev, signals, main, worker_DAQ, lim>>

\* (One pass over the queue instead of two.)
perform_jobs_put_one_pass(w) ==
    [w EXCEPT !.queue = Append(@, Sentinel), !.i = 1, !.pc = "unlock"]

\* (Two passes of which only the first puts the sentinel back.)
perform_jobs_put_first_only(w) ==
    [w EXCEPT !.queue = IF w.i = 0 THEN Append(@, Sentinel) ELSE @,
              !.i = IF w.i = 0 THEN 1 ELSE w.i,
              !.pc = IF w.i = 0 THEN "get" ELSE "unlock"]

\* After the inner loop: self._queue.put(self._sentinel), and the next _i.
perform_jobs_put(w) ==
    [w EXCEPT !.queue = Append(@, Sentinel),
              !.i = IF w.i = 0 THEN 1 ELSE w.i,
              !.pc = IF w.i = 0 THEN "get" ELSE "unlock"]

perform_jobs_put_sentinel ==
    /\ worker_jobs.pc = "put"
    /\ worker_jobs' = perform_jobs_put(worker_jobs)
    /\ UNCHANGED <<dev, qdev, signals, main, hist, worker_DAQ, lim>>

\* locker.unlock()
perform_jobs_unlock ==
    /\ worker_jobs.pc = "unlock"
    /\ dev' = mutex_unlock(dev, "jobs")
    /\ worker_jobs' = [worker_jobs EXCEPT !.pc = "emit"]
    /\ UNCHANGED <<qdev, signals, main, hist, worker_DAQ, lim>>

\* self.qdev.signal_jobs_updated.emit(); back in _do_work the loop goes on.
perform_jobs_emit ==
    /\ worker_jobs.pc = "emit"
    /\ signals' = [signals EXCEPT !.jobs_updated = @ + 1]
    /\ worker_jobs' = [worker_jobs EXCEPT !.pc = "while"]
    /\ UNCHANGED <<dev, qdev, main, hist, worker_DAQ, lim>>

-----------------------------------------------------------------------------
(* Main thread: the DAQ side of QDeviceIO *)

\* self._qwc.wakeAll() of Worker_DAQ (SINGLE_SHOT_WAKE_UP).
DAQ_wakeAll(w) == IF w.pc = "wait" THEN [w EXCEPT !.pc = "woken"] ELSE w

\* qdev._qwc_worker_DAQ_started.wakeAll(): the main thread afterwards.
DAQ_started_wakeAll(m) ==
    IF m.pc = "start_DAQ_wait" THEN [m EXCEPT !.pc = "start_DAQ_sleep"] ELSE m

\* qdev._qwc_worker_DAQ_stopped.wakeAll(): the main thread afterwards.
DAQ_stopped_wakeAll(m) ==
    IF m.pc = "quit_DAQ_wait" THEN [m EXCEPT !.pc = "quit_DAQ_quit"] ELSE m

\* (A _stop() that stops nothing.)
DAQ_stop_nothing(w) == w

\* Worker_DAQ._stop(): on the worker's own thread for INTERNAL_TIMER, on any
\* thread for the other two triggers.
DAQ_stop(w) ==
    IF w.DAQ_trigger = "INTERNAL_TIMER"
    THEN [w EXCEPT !.timer_active = FALSE, !.stop_timer = TRUE,
                   !.has_stopped = TRUE]
    ELSE IF w.DAQ_trigger = "SINGLE_SHOT_WAKE_UP"
    THEN DAQ_wakeAll([w EXCEPT !.running = FALSE])
    ELSE [w EXCEPT !.running = FALSE]

\* (A worker that takes up unpause requests only.)
DAQ_set_pause_false_only(w, b) ==
    IF w.DAQ_trigger = "CONTINUOUS" /\ ~b THEN [w EXCEPT !.pause = FALSE] ELSE w

\* Worker_DAQ._set_pause_true / _set_pause_false
DAQ_set_pause(w, b) ==
    IF w.DAQ_trigger = "CONTINUOUS" THEN [w EXCEPT !.pause = b] ELSE w

\* QDeviceIO.create_worker_DAQ(DAQ_trigger, DAQ_function, ...,
\* critical_not_alive_count): a fresh Worker_DAQ and its QThread.
\* (Called at most once; dev is an attached device.)
create_worker_DAQ(trigger, f, k) ==
    /\ main.pc = "ready"
    /\ lim.cycles > 0
    /\ worker_DAQ.pc = "None"
    /\ worker_DAQ' = Worker_DAQ_init(trigger, f, k, "created")
    /\ qdev' = [qdev EXCEPT !.thread_DAQ = "created"]
    /\ main' = main_ready
    /\ UNCHANGED <<dev, signals, worker_jobs, hist, lim>>

\* (A start_worker_DAQ that does not look at dev.is_alive.)
start_worker_DAQ_unchecked ==
    /\ main.pc = "ready"
    /\ qdev.thread_DAQ = "created"
    /\ qdev' = [qdev EXCEPT !.thread_DAQ = "running"]
    /\ worker_DAQ' = [worker_DAQ EXCEPT !.pc = "do_work"]
    /\ main' = [main_ready EXCEPT !.pc = "start_DAQ_thread"]
    /\ UNCHANGED <<dev, signals, worker_jobs, hist, lim>>

\* QDeviceIO.start_worker_DAQ, up to self._thread_DAQ.start(priority).
\* (Called on a created worker whose thread has not been started before.)
start_worker_DAQ ==
    /\ main.pc = "ready"
    /\ qdev.thread_DAQ = "created"
    /\ IF ~dev.is_alive
       THEN /\ main' = [main EXCEPT !.returned = "False", !.call = "start_worker_DAQ"]
            /\ hist' = [hist EXCEPT !.refused = @ \cup {"DAQ"}]
            /\ UNCHANGED <<qdev, worker_DAQ>>
       ELSE /\ qdev' = [qdev EXCEPT !.thread_DAQ = "running"]
            /\ worker_DAQ' = [worker_DAQ EXCEPT !.pc = "do_work"]
            /\ main' = [main_ready EXCEPT !.pc = "start_DAQ_thread"]
            /\ UNCHANGED hist
    /\ UNCHANGED <<dev, signals, worker_jobs, lim>>

\* A start_worker_DAQ that does not wait for the confirmation of the worker.
start_worker_DAQ_no_wait ==
    /\ main.pc = "start_DAQ_thread"
    /\ main' = [main EXCEPT !.pc = "start_DAQ_sleep"]
    /\ UNCHANGED <<dev, qdev, signals, worker_jobs, worker_DAQ, hist, lim>>

\* start_worker_DAQ enters self._qwc_worker_DAQ_started.wait(...).
start_worker_DAQ_wait ==
    /\ main.pc = "start_DAQ_thread"
    /\ main' = [main EXCEPT !.pc = "start_DAQ_wait"]
    /\ UNCHANGED <<dev, qdev, signals, worker_jobs, worker_DAQ, hist, lim>>

\* start_worker_DAQ after the wait: time.sleep(0.05) (SINGLE_SHOT_WAKE_UP),
\* processEvents() (CONTINUOUS); return True.
start_worker_DAQ_return ==
    /\ main.pc = "start_DAQ_sleep"
    /\ main' = [pc |-> "ready", returned |-> "True", call |-> "start_worker_DAQ"]
    /\ UNCHANGED <<dev, qdev, signals, worker_jobs, worker_DAQ, hist, lim>>

\* QDeviceIO.pause_DAQ (b = TRUE) and unpause_DAQ (b = FALSE): the signal
\* _request_worker_DAQ_(un)pause is queued to the thread of the worker.
pause_DAQ(b) ==
    /\ main.pc = "ready"
    /\ hist.n_pause_calls < lim.pauses
    /\ hist' = [hist EXCEPT !.n_pause_calls = @ + 1,
                            !.unpaused = @ \/ (~b /\ worker_DAQ.pc \notin
                                                       {"None", "created"})]
    /\ IF worker_DAQ.pc # "None"
       THEN worker_DAQ' = [worker_DAQ EXCEPT !.events =
                              Append(@, IF b THEN "pause" ELSE "unpause")]
       ELSE UNCHANGED worker_DAQ
    /\ main' = main_ready
    /\ UNCHANGED <<dev, qdev, signals, worker_jobs, lim>>

\* Worker_DAQ._wake_up()
DAQ_wake_up(w) ==
    IF w.DAQ_trigger = "SINGLE_SHOT_WAKE_UP" THEN DAQ_wakeAll(w) ELSE w

\* QDeviceIO.wake_up_DAQ
wake_up_DAQ ==
    /\ main.pc = "ready"
    /\ qdev.update_counter_DAQ < lim.cycles
    /\ lim.wakes > 0 => hist.wake_ups < lim.wakes
    /\ IF worker_DAQ.pc # "None"
       THEN worker_DAQ' = DAQ_wake_up(worker_DAQ)
       ELSE UNCHANGED worker_DAQ
    /\ hist' = IF lim.wakes > 0
               THEN [hist EXCEPT
                       !.wake_ups = @ + 1,
                       !.woke = IF worker_DAQ.pc = "wait" THEN @ + 1 ELSE @]
               ELSE hist
    /\ main' = main_ready
    /\ UNCHANGED <<dev, qdev, signals, worker_jobs, lim>>

\* (A quit_worker_DAQ that calls _stop() itself whatever the trigger.)
quit_worker_DAQ_direct_stop ==
    /\ main.pc = "ready"
    /\ IF \/ qdev.thread_DAQ = "None"
          \/ worker_DAQ.pc = "None"
          \/ ~worker_DAQ.has_started
       THEN /\ main' = [main EXCEPT !.returned = "True", !.call = "quit_worker_DAQ"]
            /\ UNCHANGED <<worker_DAQ, hist>>
       ELSE IF qdev.thread_DAQ = "finished"
       THEN /\ main' = [main EXCEPT !.returned = "True", !.call = "quit_worker_DAQ"]
            /\ UNCHANGED <<worker_DAQ, hist>>
       ELSE IF ~worker_DAQ.has_stopped
       THEN /\ worker_DAQ' = DAQ_stop(worker_DAQ)
            /\ hist' = [hist EXCEPT !.stop_requested = TRUE]
            /\ main' = [main_ready EXCEPT !.pc = "quit_DAQ_stop"]
       ELSE /\ main' = [main_ready EXCEPT !.pc = "quit_DAQ_quit"]
            /\ UNCHANGED <<worker_DAQ, hist>>
    /\ UNCHANGED <<dev, qdev, signals, worker_jobs, lim>>

\* QDeviceIO.quit_worker_DAQ, up to the stop request: the queued signal
\* _request_worker_DAQ_stop (INTERNAL_TIMER) or the call of _stop().
quit_worker_DAQ ==
    /\ main.pc = "ready"
    /\ IF \/ qdev.thread_DAQ = "None"
          \/ worker_DAQ.pc = "None"
          \/ ~worker_DAQ.has_started
       THEN /\ main' = [main EXCEPT !.returned = "True", !.call = "quit_worker_DAQ"]
            /\ UNCHANGED <<worker_DAQ, hist>>
       ELSE IF qdev.thread_DAQ = "finished"
       THEN /\ main' = [main EXCEPT !.returned = "True", !.call = "quit_worker_DAQ"]
            /\ UNCHANGED <<worker_DAQ, hist>>
       ELSE IF ~worker_DAQ.has_stopped
       THEN /\ worker_DAQ' =
                 IF worker_DAQ.DAQ_trigger = "INTERNAL_TIMER"
                 THEN [worker_DAQ EXCEPT !.events = Append(@, "stop")]
                 ELSE DAQ_stop(worker_DAQ)
            /\ hist' = [hist EXCEPT !.stop_requested = TRUE]
            /\ main' = [main_ready EXCEPT !.pc = "quit_DAQ_stop"]
       ELSE /\ main' = [main_ready EXCEPT !.pc = "quit_DAQ_quit"]
            /\ UNCHANGED <<worker_DAQ, hist>>
    /\ UNCHANGED <<dev, qdev, signals, worker_jobs, lim>>

\* quit_worker_DAQ enters self._qwc_worker_DAQ_stopped.wait(...).
quit_worker_DAQ_wait ==
    /\ main.pc = "quit_DAQ_stop"
    /\ main' = [main EXCEPT !.pc = "quit_DAQ_wait"]
    /\ UNCHANGED <<dev, qdev, signals, worker_jobs, worker_DAQ, hist, lim>>

\* quit_worker_DAQ: self._thread_DAQ.quit().
quit_worker_DAQ_quit ==
    /\ main.pc = "quit_DAQ_quit"
    /\ qdev' = [qdev EXCEPT !.thread_DAQ = IF @ = "running" THEN "quit" ELSE @]
    /\ main' = [main EXCEPT !.pc = "quit_DAQ_join"]
    /\ UNCHANGED <<dev, signals, worker_jobs, worker_DAQ, hist, lim>>

\* quit_worker_DAQ: self._thread_DAQ.wait(2000) and the return.
quit_worker_DAQ_join ==
    /\ main.pc = "quit_DAQ_join"
    /\ \/ /\ qdev.thread_DAQ = "finished"
          /\ main' = [pc |-> "ready", returned |-> "True", call |-> "quit_worker_DAQ"]
       \/ /\ qdev.thread_DAQ # "finished"
          /\ main' = [pc |-> "ready", returned |-> "False", call |-> "quit_worker_DAQ"]
    /\ UNCHANGED <<dev, qdev, signals, worker_jobs, worker_DAQ, hist, lim>>

-----------------------------------------------------------------------------
(* The thread of Worker_DAQ: Worker_DAQ._do_work *)

\* Where _perform_DAQ returns to: the event loop that fired the timer
\* (INTERNAL_TIMER) or the loop of _do_work.
DAQ_after_perform(w) == IF w.DAQ_trigger = "INTERNAL_TIMER" THEN "evloop" ELSE "while"

\* _do_work begins.  INTERNAL_TIMER: self._timer.start().
DAQ_do_work ==
    /\ worker_DAQ.pc = "do_work"
    /\ worker_DAQ' =
         IF worker_DAQ.DAQ_trigger = "INTERNAL_TIMER"
         THEN [worker_DAQ EXCEPT !.timer_active = TRUE, !.pc = "confirm"]
         ELSE [worker_DAQ EXCEPT !.pc = "while"]
    /\ UNCHANGED <<dev, qdev, signals, worker_jobs, main, hist, lim>>

\* (A CONTINUOUS loop that does not test self._running.)
DAQ_do_work_while_true ==
    /\ worker_DAQ.pc = "while"
    /\ worker_DAQ' =
         [worker_DAQ EXCEPT !.pc =
            IF worker_DAQ.DAQ_trigger = "CONTINUOUS" THEN "events"
            ELSE IF ~worker_DAQ.running THEN "stopping"
            ELSE IF worker_DAQ.init THEN "confirm"
            ELSE "before_wait"]
    /\ UNCHANGED <<dev, qdev, signals, worker_jobs, main, hist, lim>>

\* `while self._running:` of SINGLE_SHOT_WAKE_UP and of CONTINUOUS.
DAQ_do_work_while ==
    /\ worker_DAQ.pc = "while"
    /\ worker_DAQ' =
         [worker_DAQ EXCEPT !.pc =
            IF ~worker_DAQ.running THEN "stopping"
            ELSE IF worker_DAQ.DAQ_trigger = "CONTINUOUS" THEN "events"
            ELSE IF worker_DAQ.init THEN "confirm"
            ELSE "before_wait"]
    /\ UNCHANGED <<dev, qdev, signals, worker_jobs, main, hist, lim>>

\* (_request_worker_DAQ_pause connected to _stop.)
DAQ_handle_pause_stops(w, e) ==
    IF e \in {"stop", "pause"} THEN DAQ_stop(w)
    ELSE DAQ_set_pause(w, FALSE)

\* A queued signal reaches its slot on the worker's thread.
DAQ_handle(w, e) ==
    IF e = "stop" THEN DAQ_stop(w)
    ELSE IF e = "pause" THEN DAQ_set_pause(w, TRUE)
    ELSE DAQ_set_pause(w, FALSE)

RECURSIVE DAQ_handle_all(_, _)
DAQ_handle_all(w, es) ==
    IF es = <<>> THEN w ELSE DAQ_handle_all(DAQ_handle(w, Head(es)), Tail(es))

\* CONTINUOUS: QtCore.QCoreApplication.processEvents(), then `if init:`.
DAQ_processEvents ==
    /\ worker_DAQ.pc = "events"
    /\ worker_DAQ' =
         [DAQ_handle_all(worker_DAQ, worker_DAQ.events) EXCEPT
            !.events = <<>>,
            !.pc = IF worker_DAQ.init THEN "init" ELSE "branch"]
    /\ UNCHANGED <<dev, qdev, signals, worker_jobs, main, hist, lim>>

\* (A CONTINUOUS worker that starts up unpaused.)
DAQ_init_unpaused ==
    /\ worker_DAQ.pc = "init"
    /\ worker_DAQ' = [worker_DAQ EXCEPT !.pause = FALSE, !.paused = FALSE,
                                        !.pc = "confirm"]
    /\ signals' = [signals EXCEPT !.DAQ_paused = @ + 1]
    /\ UNCHANGED <<dev, qdev, worker_jobs, main, hist, lim>>

\* CONTINUOUS, `if init:`: self._pause = True; self._paused = True;
\* self.qdev.signal_DAQ_paused.emit().
DAQ_init_paused ==
    /\ worker_DAQ.pc = "init"
    /\ worker_DAQ' = [worker_DAQ EXCEPT !.pause = TRUE, !.paused = TRUE,
                                        !.pc = "confirm"]
    /\ signals' = [signals EXCEPT !.DAQ_paused = @ + 1]
    /\ UNCHANGED <<dev, qdev, worker_jobs, main, hist, lim>>

\* confirm_has_started: time.sleep(0.05), then
\* self.qdev._qwc_worker_DAQ_started.wakeAll().
DAQ_confirm_has_started ==
    /\ worker_DAQ.pc = "confirm"
    /\ main' = DAQ_started_wakeAll(main)
    /\ worker_DAQ' = [worker_DAQ EXCEPT !.pc = "confirm_flag"]
    /\ UNCHANGED <<dev, qdev, signals, worker_jobs, hist, lim>>

\* confirm_has_started: self._has_started = True; then init = False.
DAQ_confirm_flag ==
    /\ worker_DAQ.pc = "confirm_flag"
    /\ worker_DAQ' =
         [worker_DAQ EXCEPT
            !.has_started = TRUE,
            !.init = FALSE,
            !.pc = IF worker_DAQ.DAQ_trigger = "INTERNAL_TIMER" THEN "evloop"
                   ELSE IF worker_DAQ.DAQ_trigger = "CONTINUOUS" THEN "branch"
                   ELSE "before_wait"]
    /\ UNCHANGED <<dev, qdev, signals, worker_jobs, main, hist, lim>>

\* SINGLE_SHOT_WAKE_UP: the worker enters self._qwc.wait(self._mutex_wait).
DAQ_wait ==
    /\ worker_DAQ.pc = "before_wait"
    /\ worker_DAQ' = [worker_DAQ EXCEPT !.pc = "wait"]
    /\ UNCHANGED <<dev, qdev, signals, worker_jobs, main, hist, lim>>

\* (A woken worker that performs without looking at _running.)
DAQ_woken_unchecked ==
    /\ worker_DAQ.pc = "woken"
    /\ worker_DAQ' = [worker_DAQ EXCEPT !.pc = "lock"]
    /\ UNCHANGED <<dev, qdev, signals, worker_jobs, main, hist, lim>>

\* SINGLE_SHOT_WAKE_UP, back from the wait:
\* `if self._running: self._perform_DAQ()`.
DAQ_woken ==
    /\ worker_DAQ.pc = "woken"
    /\ worker_DAQ' = [worker_DAQ EXCEPT !.pc = IF worker_DAQ.running
                                               THEN "lock" ELSE "while"]
    /\ UNCHANGED <<dev, qdev, signals, worker_jobs, main, hist, lim>>

\* (A loop check that emits signal_DAQ_paused on every paused iteration.)
DAQ_continuous_branch_always_emits ==
    /\ worker_DAQ.pc = "branch"
    /\ IF worker_DAQ.pause = TRUE
       THEN /\ worker_DAQ' = [worker_DAQ EXCEPT !.paused = TRUE, !.pc = "while"]
            /\ signals' = [signals EXCEPT !.DAQ_paused = @ + 1]
       ELSE /\ qdev.update_counter_DAQ < lim.cycles
            /\ worker_DAQ' = [worker_DAQ EXCEPT !.paused = FALSE, !.pc = "lock"]
            /\ UNCHANGED signals
    /\ UNCHANGED <<dev, qdev, worker_jobs, main, hist, lim>>

\* CONTINUOUS: `if self._pause:` ... `else:` ... of the loop body.
DAQ_continuous_branch ==
    /\ worker_DAQ.pc = "branch"
    /\ IF worker_DAQ.pause = TRUE
       THEN /\ worker_DAQ' = [worker_DAQ EXCEPT !.paused = TRUE, !.pc = "while"]
            /\ signals' = [signals EXCEPT !.DAQ_paused =
                              IF worker_DAQ.pause # worker_DAQ.paused
                              THEN @ + 1 ELSE @]
       ELSE /\ qdev.update_counter_DAQ < lim.cycles
            /\ worker_DAQ' = [worker_DAQ EXCEPT !.paused = FALSE, !.pc = "lock"]
            /\ UNCHANGED signals
    /\ UNCHANGED <<dev, qdev, worker_jobs, main, hist, lim>>

\* The loop of _do_work has ended: QTimer.singleShot(100, ..._stopped.wakeAll)
\* and self._has_stopped = True; _do_work returns to the event loop.
DAQ_has_stopped ==
    /\ worker_DAQ.pc = "stopping"
    /\ worker_DAQ' = [worker_DAQ EXCEPT !.stop_timer = TRUE,
                                        !.has_stopped = TRUE, !.pc = "evloop"]
    /\ UNCHANGED <<dev, qdev, signals, worker_jobs, main, hist, lim>>

\* INTERNAL_TIMER: self._timer times out in the event loop of the thread:
\* the slot _perform_DAQ is called.
DAQ_timer_timeout ==
    /\ worker_DAQ.pc = "evloop"
    /\ worker_DAQ.timer_active
    /\ qdev.thread_DAQ = "running"
    /\ qdev.update_counter_DAQ < lim.cycles
    /\ worker_DAQ' = [worker_DAQ EXCEPT !.pc = "lock"]
    /\ UNCHANGED <<dev, qdev, signals, worker_jobs, main, hist, lim>>

\* The event loop of the thread delivers the first queued signal.
DAQ_event ==
    /\ worker_DAQ.pc = "evloop"
    /\ worker_DAQ.events # <<>>
    /\ qdev.thread_DAQ = "running"
    /\ worker_DAQ' = [DAQ_handle(worker_DAQ, Head(worker_DAQ.events)) EXCEPT
                        !.events = Tail(worker_DAQ.events)]
    /\ UNCHANGED <<dev, qdev, signals, worker_jobs, main, hist, lim>>

\* The event loop fires the single-shot timer:
\* self.qdev._qwc_worker_DAQ_stopped.wakeAll().
DAQ_stop_timer_fires ==
    /\ worker_DAQ.pc = "evloop"
    /\ worker_DAQ.stop_timer
    /\ qdev.thread_DAQ = "running"
    /\ worker_DAQ' = [worker_DAQ EXCEPT !.stop_timer = FALSE]
    /\ main' = DAQ_stopped_wakeAll(main)
    /\ UNCHANGED <<dev, qdev, signals, worker_jobs, hist, lim>>

\* The event loop ends after QThread.quit(): the thread has finished.
DAQ_thread_finishes ==
    /\ worker_DAQ.pc = "evloop"
    /\ qdev.thread_DAQ = "quit"
    /\ qdev' = [qdev EXCEPT !.thread_DAQ = "finished"]
    /\ UNCHANGED <<dev, signals, worker_jobs, worker_DAQ, main, hist, lim>>

-----------------------------------------------------------------------------
(* Worker_DAQ._perform_DAQ *)

\* What one call of DAQ_function can do: return a truthy value, return a
\* falsy value, or raise an Exception.
DAQ_outcomes == {"True", "False", "raise"}

\* (An exception of DAQ_function counted like a falsy return value.)
not_alive_after_raise_counts(n, outcome) ==
    IF outcome = "True" THEN 0 ELSE n + 1

\* try: success = self.DAQ_function() / except Exception: (report only) /
\* else: if success: counter = 0, else: counter += 1.
not_alive_after(n, outcome) ==
    IF outcome = "True" THEN 0
    ELSE IF outcome = "False" THEN n + 1
    ELSE n

\* locker = QMutexLocker(self.dev.mutex); self.qdev.update_counter_DAQ += 1;
\* the bookkeeping of the obtained DAQ interval and rate.  The readings of
\* the two QElapsedTimers are times: the interval is "ms" once measured,
\* and the rate is "Hz" (_rate_accumulator / dT * 1e3) once a cycle finds
\* dT >= 1000, which any cycle after the first may.
perform_DAQ_lock ==
    /\ worker_DAQ.pc = "lock"
    /\ mutex_can_lock("DAQ")
    /\ dev' = mutex_lock(dev, "DAQ")
    /\ \E rate_due \in BOOLEAN :
         /\ qdev' =
              IF ~worker_DAQ.QET_valid
              THEN [qdev EXCEPT !.update_counter_DAQ = @ + 1]
              ELSE [qdev EXCEPT !.update_counter_DAQ = @ + 1,
                                !.obtained_DAQ_interval_ms = "ms",
                                !.obtained_DAQ_rate_Hz =
                                    IF rate_due THEN "Hz" ELSE @]
         /\ worker_DAQ' =
              IF ~worker_DAQ.QET_valid
              THEN [worker_DAQ EXCEPT !.QET_valid = TRUE,
                      !.pc = IF worker_DAQ.DAQ_function = "None"
                             THEN "unlock" ELSE "DAQ_function"]
              ELSE [worker_DAQ EXCEPT
                      !.pc = IF worker_DAQ.DAQ_function = "None"
                             THEN "unlock" ELSE "DAQ_function"]
    /\ UNCHANGED <<signals, worker_jobs, main, hist, lim>>

\* The user-supplied DAQ function is called and its outcome is counted.
perform_DAQ_function ==
    /\ worker_DAQ.pc = "DAQ_function"
    /\ \E outcome \in DAQ_outcomes :
         /\ qdev' = [qdev EXCEPT !.not_alive_counter_DAQ =
                                    not_alive_after(@, outcome)]
         /\ hist' = [hist EXCEPT !.queries = Append(@, outcome)]
    /\ worker_DAQ' = [worker_DAQ EXCEPT !.pc = "unlock"]
    /\ UNCHANGED <<dev, signals, worker_jobs, main, lim>>

\* (A _perform_DAQ that keeps dev.mutex until after its signal.)
perform_DAQ_unlock_after_signal ==
    /\ worker_DAQ.pc = "unlock"
    /\ worker_DAQ' = [worker_DAQ EXCEPT !.pc = "check"]
    /\ UNCHANGED <<dev, qdev, signals, worker_jobs, main, hist, lim>>

\* locker.unlock()
perform_DAQ_unlock ==
    /\ worker_DAQ.pc = "unlock"
    /\ dev' = mutex_unlock(dev, "DAQ")
    /\ worker_DAQ' = [worker_DAQ EXCEPT !.pc = "check"]
    /\ UNCHANGED <<qdev, signals, worker_jobs, main, hist, lim>>

\* (The threshold passed instead of reached.)
connection_is_lost_late(w, q) ==
    /\ w.critical_not_alive_count > 0
    /\ q.not_alive_counter_DAQ > w.critical_not_alive_count

\* (A threshold of 0 taken as a threshold.)
connection_is_lost_also_at_0(w, q) ==
    q.not_alive_counter_DAQ >= w.critical_not_alive_count

\* `if critical_not_alive_count > 0 and not_alive_counter_DAQ >= ...`
connection_is_lost(w, q) ==
    /\ w.critical_not_alive_count > 0
    /\ q.not_alive_counter_DAQ >= w.critical_not_alive_count

\* (A check that reports the lost connection without self._stop().)
perform_DAQ_check_no_stop ==
    /\ worker_DAQ.pc = "check"
    /\ IF connection_is_lost(worker_DAQ, qdev)
       THEN /\ dev' = [dev EXCEPT !.is_alive = FALSE]
            /\ worker_DAQ' = [worker_DAQ EXCEPT
                                !.pc = DAQ_after_perform(worker_DAQ)]
            /\ signals' = [signals EXCEPT !.connection_lost = @ + 1]
       ELSE /\ worker_DAQ' = [worker_DAQ EXCEPT
                                !.pc = DAQ_after_perform(worker_DAQ)]
            /\ signals' = [signals EXCEPT !.DAQ_updated = @ + 1]
            /\ UNCHANGED dev
    /\ UNCHANGED <<qdev, worker_jobs, main, hist, lim>>

\* (A check without the `return` after signal_connection_lost.emit().)
perform_DAQ_check_no_return ==
    /\ worker_DAQ.pc = "check"
    /\ IF connection_is_lost(worker_DAQ, qdev)
       THEN /\ dev' = [dev EXCEPT !.is_alive = FALSE]
            /\ worker_DAQ' = [DAQ_stop(worker_DAQ) EXCEPT
                                !.pc = DAQ_after_perform(worker_DAQ)]
            /\ signals' = [signals EXCEPT !.connection_lost = @ + 1,
                                          !.DAQ_updated = @ + 1]
       ELSE /\ worker_DAQ' = [worker_DAQ EXCEPT
                                !.pc = DAQ_after_perform(worker_DAQ)]
            /\ signals' = [signals EXCEPT !.DAQ_updated = @ + 1]
            /\ UNCHANGED dev
    /\ UNCHANGED <<qdev, worker_jobs, main, hist, lim>>

\* Check the not alive counter: dev.is_alive = False, self._stop(),
\* signal_connection_lost.emit() and return; or signal_DAQ_updated.emit().
perform_DAQ_check ==
    /\ worker_DAQ.pc = "check"
    /\ IF connection_is_lost(worker_DAQ, qdev)
       THEN /\ dev' = [dev EXCEPT !.is_alive = FALSE]
            /\ worker_DAQ' = [DAQ_stop(worker_DAQ) EXCEPT
                                !.pc = DAQ_after_perform(worker_DAQ)]
            /\ signals' = [signals EXCEPT !.connection_lost = @ + 1]
       ELSE /\ worker_DAQ' = [worker_DAQ EXCEPT
                                !.pc = DAQ_after_perform(worker_DAQ)]
            /\ signals' = [signals EXCEPT !.DAQ_updated = @ + 1]
            /\ UNCHANGED dev
    /\ UNCHANGED <<qdev, worker_jobs, main, hist, lim>>

-----------------------------------------------------------------------------

MainDAQ ==
    \/ \E t \in DAQ_TRIGGER, f \in {"None", "callable"}, k \in 0..lim.critical :
          create_worker_DAQ(t, f, k)
    \/ start_worker_DAQ
    \/ start_worker_DAQ_wait
    \/ start_worker_DAQ_return
    \/ \E b \in BOOLEAN : pause_DAQ(b)
    \/ wake_up_DAQ
    \/ quit_worker_DAQ
    \/ quit_worker_DAQ_wait
    \/ quit_worker_DAQ_quit
    \/ quit_worker_DAQ_join

WorkerDAQ ==
    \/ DAQ_do_work
    \/ DAQ_do_work_while
    \/ DAQ_processEvents
    \/ DAQ_init_paused
    \/ DAQ_confirm_has_started
    \/ DAQ_confirm_flag
    \/ DAQ_wait
    \/ DAQ_woken
    \/ DAQ_continuous_branch
    \/ DAQ_has_stopped
    \/ DAQ_timer_timeout
    \/ DAQ_event
    \/ DAQ_stop_timer_fires
    \/ DAQ_thread_finishes
    \/ perform_DAQ_lock
    \/ perform_DAQ_function
    \/ perform_DAQ_unlock
    \/ perform_DAQ_check

NextDAQ == MainDAQ \/ WorkerDAQ

SpecDAQ == InitWith(LimDAQ) /\ [][NextDAQ]_vars

\* Worker_DAQ alone, with few acquisitions and more pause and unpause calls.
LimPause ==
    [jobs |-> 0, drains |-> 0, cycles |-> PauseCycles,
     pauses |-> PausePauseCalls, critical |-> 0, wakes |-> 0]

SpecPause == InitWith(LimPause) /\ [][NextDAQ]_vars

\* The worker's thread is scheduled as long as it has something to do.
FairSpecPause == SpecPause /\ WF_vars(WorkerDAQ)

\* Worker_DAQ alone, with the calls of wake_up_DAQ counted: hist.wake_ups
\* are the calls made, hist.woke those that found the worker in its wait.
\* (lim.wakes = 0 in the other specifications: the calls are not counted.)
LimWake ==
    [jobs |-> 0, drains |-> 0, cycles |-> WakeCycles, pauses |-> WakePauseCalls,
     critical |-> WakeCritical, wakes |-> WakeCalls]

SpecWake == InitWith(LimWake) /\ [][NextDAQ]_vars

-----------------------------------------------------------------------------

MainJobs ==
    \/ \E f \in {"None", "set"} : create_worker_jobs(f)
    \/ start_worker_jobs
    \/ start_worker_jobs_wait
    \/ start_worker_jobs_return
    \/ \E f \in Instructions : add_to_jobs_queue(f)
    \/ process_jobs_queue
    \/ \E f \in Instructions : send_add(f)
    \/ send_process
    \/ quit_worker_jobs
    \/ quit_worker_jobs_wait
    \/ quit_worker_jobs_quit
    \/ quit_worker_jobs_join

WorkerJobs ==
    \/ jobs_do_work_while
    \/ jobs_confirm_has_started
    \/ jobs_confirm_flag
    \/ jobs_wait
    \/ jobs_woken
    \/ jobs_has_stopped
    \/ jobs_stop_timer_fires
    \/ jobs_thread_finishes
    \/ perform_jobs_lock
    \/ perform_jobs_get
    \/ perform_jobs_job
    \/ perform_jobs_put_sentinel
    \/ perform_jobs_unlock
    \/ perform_jobs_emit

NextJobs == MainJobs \/ WorkerJobs

\* Worker_jobs alone.
SpecJobs == InitWith(LimJobs) /\ [][NextJobs]_vars

\* Both workers on one device.
Next == MainJobs \/ WorkerJobs \/ MainDAQ \/ WorkerDAQ

Spec == Init /\ [][Next]_vars

\* One worker on the device, either of the two, with the budgets of Spec: the
\* main thread creates and drives Worker_jobs alone or Worker_DAQ alone (the
\* other worker has no budget and stays Uninitialized).
LimEitherJobs == [LimBoth EXCEPT !.cycles = 0, !.pauses = 0, !.critical = 0]
LimEitherDAQ == [LimBoth EXCEPT !.jobs = 0, !.drains = 0]

SpecEither ==
    /\ InitWith(LimEitherJobs) \/ InitWith(LimEitherDAQ)
    /\ [][Next]_vars

-----------------------------------------------------------------------------
(* Properties *)

\* The positions of _perform_jobs between locker = QMutexLocker(dev.mutex)
\* and locker.unlock(), and the same of _perform_DAQ.
jobs_locked_section == {"get", "job", "put", "unlock"}
DAQ_locked_section == {"DAQ_function", "unlock"}

\* C1: at most one worker holds dev.mutex; a job is executed and DAQ_function
\* is called only while the worker that does so holds dev.mutex, so the locked
\* sections of _perform_DAQ and _perform_jobs never overlap.
C1_MutualExclusion ==
    /\ Cardinality(dev.mutex) <= 1
    /\ worker_jobs.pc \in jobs_locked_section => "jobs" \in dev.mutex
    /\ worker_DAQ.pc \in DAQ_locked_section => "DAQ" \in dev.mutex
    /\ ~(worker_jobs.pc \in jobs_locked_section
         /\ worker_DAQ.pc \in DAQ_locked_section)

\* C1 happens: Worker_jobs executes a job while Worker_DAQ is held up at the
\* lock of _perform_DAQ.
C1_Witness ==
    /\ worker_jobs.pc = "job"
    /\ worker_DAQ.pc = "lock"
    /\ dev.mutex = {"jobs"}

\* The ids of the jobs executed so far, in the order of their execution, then
\* the job in hand, then the jobs on the queue.
jobs_in_order ==
    JobIds(hist.executed)
      \o (IF worker_jobs.pc = "job" THEN <<worker_jobs.job.id>> ELSE <<>>)
      \o JobIds(JobsOf(worker_jobs.queue))

\* C2: whatever the interleaving of _add_to_queue with _perform_jobs, every
\* job put on the queue has been executed once or is still on the queue (or
\* in hand), none twice, and the jobs are executed in the order of their
\* put() across all drains.
C2_NoJobLostOrDuplicated == jobs_in_order = Range1(1, hist.n_enq)

\* C2 happens: a drain ends during which a job was put on the queue; the
\* drain has executed a job and a job stays behind for the next drain.
C2_Witness ==
    /\ worker_jobs.pc = "unlock"
    /\ hist.n_enq > hist.drain_enq
    /\ Len(hist.executed) > hist.drain_from
    /\ JobsOf(worker_jobs.queue) # <<>>

\* The ids of the jobs that the drain in progress, or the last drain, has
\* executed.
drained_ids ==
    JobIds(SubSeq(hist.executed, hist.drain_from + 1, Len(hist.executed)))

jobs_in_drain == {"get", "job", "put", "unlock", "emit"}

\* C4: from __init__ on, whenever Worker_jobs is not inside _perform_jobs
\* the queue holds the sentinel exactly once; also after an exception of
\* jobs_function has cut a drain short.
C4_OneSentinel ==
    worker_jobs.pc \notin jobs_in_drain
    => CountSentinels(worker_jobs.queue) = 1

\* C4 happens: the worker waits again after the second drain, with a job
\* on the queue that was put during that drain.
C4_Witness ==
    /\ worker_jobs.pc = "wait"
    /\ qdev.update_counter_jobs = MaxDrains
    /\ JobsOf(worker_jobs.queue) # <<>>
    /\ CountSentinels(worker_jobs.queue) = 1

\* Worker_jobs alone, and every thread gets its turn: the worker's thread
\* takes its next step when it has one, and a send() that has put its job on
\* the queue goes on to _process_queue().
FairSpecJobs == SpecJobs /\ WF_vars(WorkerJobs) /\ WF_vars(send_process)

\* Worker_jobs alone, with the calls of _process_queue counted:
\* hist.wake_ups are the calls made (by process_jobs_queue and send),
\* hist.woke those that found the worker in its wait, and hist.woke_nonempty
\* those of the latter that found a job on the queue.
LimRequests ==
    [jobs |-> ReqJobs, drains |-> ReqDrains, cycles |-> 0, pauses |-> 0,
     critical |-> 0, wakes |-> ReqCalls]

SpecRequests == InitWith(LimRequests) /\ [][NextJobs]_vars

\* One worker alone with its wake-up requests counted, as many of them as
\* the worker has drains or acquisitions: Worker_jobs with one job to put,
\* or Worker_DAQ without a threshold.
LimEitherRequests == [LimRequests EXCEPT !.jobs = BothJobs, !.wakes = ReqDrains]
LimEitherWake == [LimWake EXCEPT !.critical = 0, !.wakes = WakeCycles]

SpecEitherCounted ==
    /\ InitWith(LimEitherRequests) \/ InitWith(LimEitherWake)
    /\ [][Next]_vars

------------------------------------------------------------------------------
(* Misuse: QDeviceIO without a device, start before create, attach_device *)

\* class _NoDevice, the dev of a QDeviceIO() that was given no device.
NoDevice == [name |-> "NoDevice", is_alive |-> FALSE, mutex |-> {}]

\* isinstance(self.dev, _NoDevice)
is_NoDevice(d) == "name" \in DOMAIN d

\* QDeviceIO(dev) or QDeviceIO(): as InitWith, or with dev = _NoDevice().
InitMisuse(l) ==
    /\ dev \in [is_alive : BOOLEAN, mutex : {{}}] \cup {NoDevice}
    /\ qdev = QDeviceIO_init
    /\ signals = [DAQ_updated |-> 0, DAQ_paused |-> 0, connection_lost |-> 0,
                  jobs_updated |-> 0]
    /\ worker_jobs = Worker_jobs_init("None", "None")
    /\ worker_DAQ = Worker_DAQ_init("INTERNAL_TIMER", "None", 1, "None")
    /\ main = main_ready
    /\ hist = [n_enq |-> 0, executed |-> <<>>, drain_from |-> 0, drain_enq |-> 0,
               queries |-> <<>>, n_pause_calls |-> 0, stop_requested |-> FALSE,
               sent |-> {}, jobs_waited |-> FALSE, refused |-> {},
               unpaused |-> FALSE, wake_ups |-> 0, woke |-> 0,
               woke_nonempty |-> 0]
    /\ lim = l

\* sys.exit(code) in the main thread, and an exception that nothing catches:
\* the call does not return and the process ends.
sys_exit(code, call) == [pc |-> "exited", returned |-> code, call |-> call]

\* The process is alive: its threads take steps.
process_runs == main.pc # "exited"

\* QDeviceIO.create_worker_DAQ from its first line: sys.exit(99) when there
\* is no device attached, else the worker and its thread are made.
QDeviceIO_create_worker_DAQ(trigger, f, k) ==
    IF is_NoDevice(dev)
    THEN /\ main.pc = "ready"
         /\ main' = sys_exit("99", "create_worker_DAQ")
         /\ UNCHANGED <<dev, qdev, signals, worker_jobs, worker_DAQ, hist, lim>>
    ELSE create_worker_DAQ(trigger, f, k)

\* QDeviceIO.create_worker_jobs from its first line.
QDeviceIO_create_worker_jobs(f) ==
    IF is_NoDevice(dev)
    THEN /\ main.pc = "ready"
         /\ main' = sys_exit("99", "create_worker_jobs")
         /\ UNCHANGED <<dev, qdev, signals, worker_jobs, worker_DAQ, hist, lim>>
    ELSE create_worker_jobs(f)

\* QDeviceIO.start_worker_DAQ from its first line: sys.exit(404) when
\* self._thread_DAQ is None or worker_DAQ is Uninitialized_Worker_DAQ.
QDeviceIO_start_worker_DAQ ==
    IF qdev.thread_DAQ = "None" \/ worker_DAQ.pc = "None"
    THEN /\ main.pc = "ready"
         /\ main' = sys_exit("404", "start_worker_DAQ")
         /\ UNCHANGED <<dev, qdev, signals, worker_jobs, worker_DAQ, hist, lim>>
    ELSE start_worker_DAQ

\* QDeviceIO.start_worker_jobs from its first line.
QDeviceIO_start_worker_jobs ==
    IF qdev.thread_jobs = "None" \/ worker_jobs.pc = "None"
    THEN /\ main.pc = "ready"
         /\ main' = sys_exit("404", "start_worker_jobs")
         /\ UNCHANGED <<dev, qdev, signals, worker_jobs, worker_DAQ, hist, lim>>
    ELSE start_worker_jobs

\* qdev.attach_device(dev): class QDeviceIO has no attach_device, the device
\* is bound once in __init__. The call raises AttributeError, whether or not
\* a device is attached, and nothing catches it.
attach_device ==
    /\ main.pc = "ready"
    /\ main' = sys_exit("AttributeError", "attach_device")
    /\ UNCHANGED <<dev, qdev, signals, worker_jobs, worker_DAQ, hist, lim>>

MainMisuse ==
    \/ \E t \in DAQ_TRIGGER, f \in {"None", "callable"}, k \in 0..lim.critical :
          QDeviceIO_create_worker_DAQ(t, f, k)
    \/ \E f \in {"None", "set"} : QDeviceIO_create_worker_jobs(f)
    \/ QDeviceIO_start_worker_DAQ
    \/ QDeviceIO_start_worker_jobs
    \/ attach_device

\* The other calls of the main thread.
MainCalls ==
    \/ start_worker_jobs_wait
    \/ start_worker_jobs_return
    \/ \E f \in Instructions : add_to_jobs_queue(f)
    \/ process_jobs_queue
    \/ \E f \in Instructions : send_add(f)
    \/ send_process
    \/ quit_worker_jobs
    \/ quit_worker_jobs_wait
    \/ quit_worker_jobs_quit
    \/ quit_worker_jobs_join
    \/ start_worker_DAQ_wait
    \/ start_worker_DAQ_return
    \/ \E b \in BOOLEAN : pause_DAQ(b)
    \/ wake_up_DAQ
    \/ quit_worker_DAQ
    \/ quit_worker_DAQ_wait
    \/ quit_worker_DAQ_quit
    \/ quit_worker_DAQ_join

NextMisuse ==
    \/ MainMisuse
    \/ MainCalls
    \/ process_runs /\ WorkerJobs
    \/ process_runs /\ WorkerDAQ

\* One worker on the device as in SpecEither, or no device at all, with the
\* calls that are made before their prerequisite.
SpecMisuse ==
    /\ InitMisuse(LimEitherJobs) \/ InitMisuse(LimEitherDAQ)
    /\ [][NextMisuse]_vars

\* The ids of the jobs executed so far.
executed_ids == {hist.executed[i].id : i \in 1..Len(hist.executed)}

\* C5: a job that send() has put on the queue of a started Worker_jobs (one
\* that has been in its wait for a wake-up) is in the end executed, and signal_jobs_updated follows its execution,
\* unless the worker has been told to stop or an exception of jobs_function
\* has ended its loop; also when send() is called during a drain.
C5_SentJobIsExecuted ==
    \A n \in 1..MaxJobs :
       /\ (n \in hist.sent) ~>
             \/ n \in executed_ids
             \/ ~worker_jobs.running
             \/ worker_jobs.pc = "crashed"
       /\ (n \in hist.sent /\ n \in executed_ids) ~>
             \/ worker_jobs.pc \notin jobs_in_drain
             \/ worker_jobs.pc = "crashed"

\* The last entry of a sequence that is not empty.
Last(s) == s[Len(s)]

\* The number of falsy return values of DAQ_function since its last truthy
\* one, the calls that raised left out.
RECURSIVE failures_in_a_row(_)
failures_in_a_row(q) ==
    IF q = <<>> THEN 0
    ELSE IF Last(q) = "True" THEN 0
    ELSE IF Last(q) = "False" THEN failures_in_a_row(SubSeq(q, 1, Len(q) - 1)) + 1
    ELSE failures_in_a_row(SubSeq(q, 1, Len(q) - 1))

\* _perform_DAQ has counted the cycle and not yet emitted its signal.
DAQ_cycle_in_flight == worker_DAQ.pc \in {"DAQ_function", "unlock", "check"}

\* The number of _perform_DAQ calls that have emitted their signal.
DAQ_cycles_done ==
    qdev.update_counter_DAQ - (IF DAQ_cycle_in_flight THEN 1 ELSE 0)

\* C6: with critical_not_alive_count = k > 0, not_alive_counter_DAQ is the
\* number of failures (falsy return values of DAQ_function) in a row, a
\* success sets it back to 0, and signal_connection_lost has been emitted
\* exactly when the k-th failure in a row has happened and the cycle of that
\* failure has done its check: in that cycle, not before and not after.
C6_LostAtKthFailure ==
    (worker_DAQ.pc # "None" /\ worker_DAQ.critical_not_alive_count > 0)
    => LET k == worker_DAQ.critical_not_alive_count
           n == failures_in_a_row(hist.queries)
       IN  /\ qdev.not_alive_counter_DAQ = n
           /\ n <= k
           /\ signals.connection_lost =
                 IF n = k /\ worker_DAQ.pc \notin {"unlock", "check"}
                 THEN 1 ELSE 0
           /\ worker_DAQ.DAQ_function # "None" =>
                 Len(hist.queries) = qdev.update_counter_DAQ
                     - (IF worker_DAQ.pc = "DAQ_function" THEN 1 ELSE 0)
           /\ signals.connection_lost = 1 => Last(hist.queries) = "False"

\* C6 happens: k = 2; a failure and a success, then two failures in a row;
\* the cycle of the second has emitted signal_connection_lost.
C6_Witness ==
    /\ worker_DAQ.critical_not_alive_count = 2
    /\ hist.queries = <<"False", "True", "False", "False">>
    /\ signals.connection_lost = 1
    /\ signals.DAQ_updated = 3

\* DAQ_function has raised in the step taken.
DAQ_function_has_raised ==
    /\ Len(hist'.queries) = Len(hist.queries) + 1
    /\ Last(hist'.queries) = "raise"

C8_AfterConnectionLost ==
    /\ [](signals.connection_lost <= 1)
    /\ [](signals.connection_lost = 1 => ~dev.is_alive)
    /\ [][signals.connection_lost >= 1 =>
            /\ qdev'.update_counter_DAQ = qdev.update_counter_DAQ
            /\ signals'.connection_lost = signals.connection_lost
            /\ signals'.DAQ_updated = signals.DAQ_updated]_vars

\* C8 happens: CONTINUOUS; the first cycle has emitted
\* signal_connection_lost, and an unpause_DAQ() called afterwards has
\* reached the worker, which is out of its loop.
C8_Witness ==
    /\ worker_DAQ.DAQ_trigger = "CONTINUOUS"
    /\ signals.connection_lost = 1
    /\ qdev.update_counter_DAQ = 1
    /\ hist.n_pause_calls = MaxPauseCalls
    /\ worker_DAQ.events = <<>>
    /\ worker_DAQ.pc = "evloop"
    /\ worker_DAQ.pause = FALSE

\* C9: every _perform_DAQ adds one to update_counter_DAQ and ends with
\* exactly one of signal_DAQ_updated and signal_connection_lost: the counter
\* is the number of signals emitted, plus one while a cycle is in flight.
C9_OneSignalPerCycle ==
    /\ signals.DAQ_updated + signals.connection_lost = DAQ_cycles_done
    /\ qdev.update_counter_DAQ = Len(hist.queries)
         + (IF worker_DAQ.pc = "DAQ_function" THEN 1 ELSE 0)
       \/ worker_DAQ.DAQ_function = "None"

\* C9 happens: the run has had all its cycles; the last one has emitted
\* signal_connection_lost and each of the others signal_DAQ_updated.
C9_Witness ==
    /\ qdev.update_counter_DAQ = MaxCycles
    /\ ~DAQ_cycle_in_flight
    /\ signals.connection_lost = 1
    /\ signals.DAQ_updated = MaxCycles - 1

\* C10: with critical_not_alive_count = 0, whatever DAQ_function returns,
\* signal_connection_lost is never emitted, dev.is_alive stays True, the
\* worker does not stop before quit_worker_DAQ() tells it to, and every cycle
\* emits signal_DAQ_updated.
C10_NeverGivesUp ==
    (worker_DAQ.pc # "None" /\ worker_DAQ.critical_not_alive_count = 0)
    => /\ signals.connection_lost = 0
       /\ qdev.thread_DAQ # "created" => dev.is_alive
       /\ signals.DAQ_updated = DAQ_cycles_done
       /\ ~hist.stop_requested =>
            /\ worker_DAQ.running
            /\ ~worker_DAQ.has_stopped
            /\ worker_DAQ.pc \notin {"stopping"}
            /\ (worker_DAQ.DAQ_trigger = "INTERNAL_TIMER"
                /\ worker_DAQ.pc \notin {"created", "do_work"})
               => worker_DAQ.timer_active

\* C10 happens: k = 0 and DAQ_function has failed in each of the cycles of
\* the run; every one of them has emitted signal_DAQ_updated.
C10_Witness ==
    /\ worker_DAQ.critical_not_alive_count = 0
    /\ hist.queries = [i \in 1..MaxCycles |-> "False"]
    /\ qdev.not_alive_counter_DAQ = MaxCycles
    /\ signals.DAQ_updated = MaxCycles
    /\ ~hist.stop_requested

-----------------------------------------------------------------------------
(* The start and stop handshakes *)

\* The worker has raised its "started" confirmation: it is past the wakeAll
\* of confirm_has_started (the flag _has_started follows the wakeAll).
jobs_confirmed == worker_jobs.pc = "confirm_flag" \/ worker_jobs.has_started
DAQ_confirmed == worker_DAQ.pc = "confirm_flag" \/ worker_DAQ.has_started

\* C11: start_worker_DAQ and start_worker_jobs pass their wait, and return
\* True, only after the worker has entered _do_work and has raised its
\* "started" confirmation.
C11_StartAfterConfirmation ==
    /\ \/ main.pc = "start_DAQ_sleep"
       \/ main.call = "start_worker_DAQ" /\ main.returned = "True"
       => DAQ_confirmed /\ qdev.thread_DAQ # "created"
    /\ \/ main.pc = "start_jobs_sleep"
       \/ main.call = "start_worker_jobs" /\ main.returned = "True"
       => jobs_confirmed /\ qdev.thread_jobs # "created"

\* start_worker_DAQ has returned True right after the wakeAll of the worker,
\* which has not yet set its flag _has_started.
C11_Witness ==
    /\ main.call = "start_worker_DAQ"
    /\ main.returned = "True"
    /\ worker_DAQ.pc = "confirm_flag"
    /\ ~worker_DAQ.has_started

\* The main thread is back from a start_worker_* that returned True and has
\* made no other call since.
DAQ_start_has_returned_True ==
    main.pc = "ready" /\ main.call = "start_worker_DAQ" /\ main.returned = "True"
jobs_start_has_returned_True ==
    main.pc = "ready" /\ main.call = "start_worker_jobs" /\ main.returned = "True"

\* C12: a request made right after the start call has returned True reaches
\* the worker: wake_up_DAQ() finds a SINGLE_SHOT_WAKE_UP worker in its wait
\* and wakes it, process_jobs_queue() finds Worker_jobs in its wait and wakes
\* it, and pause_DAQ()/unpause_DAQ() queue their request for the worker.
C12_RequestAfterStartIsObserved ==
    [][ /\ ( /\ DAQ_start_has_returned_True
             /\ worker_DAQ.DAQ_trigger = "SINGLE_SHOT_WAKE_UP"
             /\ wake_up_DAQ )
           => worker_DAQ.pc = "wait" /\ worker_DAQ'.pc = "woken"
        /\ ( /\ jobs_start_has_returned_True
             /\ process_jobs_queue )
           => worker_jobs.pc = "wait" /\ worker_jobs'.pc = "woken"
        /\ ( /\ DAQ_start_has_returned_True
             /\ \E b \in BOOLEAN : pause_DAQ(b) )
           => Len(worker_DAQ'.events) = Len(worker_DAQ.events) + 1
      ]_vars

\* C13: start_worker_DAQ and start_worker_jobs on a live device never miss
\* the "started" notification: the worker does not raise it before the
\* caller is in its wait, so that no caller is left in (or on its way to)
\* the wait after the one wakeAll that could end it.
C13_StartNeverBlocks ==
    /\ main.pc \in {"start_DAQ_thread", "start_DAQ_wait"} => ~DAQ_confirmed
    /\ main.pc \in {"start_jobs_thread", "start_jobs_wait"} => ~jobs_confirmed

\* The worker sits in self._qwc.wait(self._mutex_wait) while _stop() has
\* already set _running = False and has given its wakeAll(): nothing is
\* left to wake it.
jobs_stop_was_lost ==
    /\ worker_jobs.pc = "wait"
    /\ ~worker_jobs.running
DAQ_stop_was_lost ==
    /\ worker_DAQ.DAQ_trigger = "SINGLE_SHOT_WAKE_UP"
    /\ worker_DAQ.pc = "wait"
    /\ ~worker_DAQ.running

\* C16: the _stop() of Worker_jobs or of a SINGLE_SHOT_WAKE_UP Worker_DAQ is
\* never lost, whatever the worker was doing: no worker goes (back) into its
\* wait after _stop(), so that it leaves its loop and confirms. (Stated for
\* workers that have completed a drain or an acquisition, that is, for a
\* _stop() that does not come right after the start.)
C16_StopIsNotLost ==
    /\ qdev.update_counter_jobs > 0 => ~jobs_stop_was_lost
    /\ qdev.update_counter_DAQ > 0 => ~DAQ_stop_was_lost

\* The caller is in the stop handshake of quit_worker_DAQ / quit_worker_jobs:
\* it has requested the stop and waits (or is about to wait) for the
\* "stopped" confirmation.
DAQ_quit_in_handshake == main.pc \in {"quit_DAQ_stop", "quit_DAQ_wait"}
jobs_quit_in_handshake == main.pc \in {"quit_jobs_stop", "quit_jobs_wait"}

\* C14: quit_worker_DAQ and quit_worker_jobs are idempotent and do not block
\* forever. A call that finds the thread finished returns True at once, a
\* call that finds the worker stopped (by itself, on a lost connection, or by
\* an earlier call) skips the stop handshake and leaves the worker as it is,
\* and a call that does go through the handshake, on a worker that has done
\* work, is not left waiting for the confirmation of a worker that sits in
\* its own wait.
C14_QuitIsIdempotent ==
    [][ /\ quit_worker_DAQ /\ worker_DAQ.has_started /\ qdev.thread_DAQ = "finished"
           => main' = [main_ready EXCEPT !.returned = "True",
                                         !.call = "quit_worker_DAQ"]
        /\ quit_worker_jobs /\ worker_jobs.has_started /\ qdev.thread_jobs = "finished"
           => main' = [main_ready EXCEPT !.returned = "True",
                                         !.call = "quit_worker_jobs"]
        /\ quit_worker_DAQ /\ worker_DAQ.has_stopped
           => ~DAQ_quit_in_handshake' /\ worker_DAQ' = worker_DAQ
        /\ quit_worker_jobs /\ worker_jobs.has_stopped
           => ~jobs_quit_in_handshake' /\ worker_jobs' = worker_jobs
        /\ DAQ_quit_in_handshake' /\ qdev.update_counter_DAQ > 0
           => ~DAQ_stop_was_lost'
        /\ jobs_quit_in_handshake' /\ qdev.update_counter_jobs > 0
           => ~jobs_stop_was_lost'
      ]_vars

\* The main thread is back from a quit_worker_* that returned True, on a
\* worker whose thread had been started (start_worker_* had returned True),
\* and has made no other call since.
DAQ_quit_has_returned_True ==
    /\ main.pc = "ready" /\ main.call = "quit_worker_DAQ" /\ main.returned = "True"
    /\ qdev.thread_DAQ \notin {"None", "created"}
jobs_quit_has_returned_True ==
    /\ main.pc = "ready" /\ main.call = "quit_worker_jobs" /\ main.returned = "True"
    /\ qdev.thread_jobs \notin {"None", "created"}

\* _perform_DAQ / _perform_jobs begins in this step.
DAQ_cycle_begins == worker_DAQ.pc # "lock" /\ worker_DAQ'.pc = "lock"
jobs_drain_begins == worker_jobs.pc # "lock" /\ worker_jobs'.pc = "lock"

\* C15: once quit_worker_DAQ (quit_worker_jobs) has returned True for a
\* worker whose start had returned True, that worker has stopped and its
\* thread has finished: no _perform_DAQ (_perform_jobs) begins any more.
C15_QuitStopsTheWorkers ==
    [][ /\ DAQ_quit_has_returned_True
           => /\ worker_DAQ.has_stopped
              /\ qdev.thread_DAQ = "finished"
              /\ ~DAQ_cycle_begins
        /\ jobs_quit_has_returned_True
           => /\ worker_jobs.has_stopped
              /\ qdev.thread_jobs = "finished"
              /\ ~jobs_drain_begins
      ]_vars

\* C17: the wake-up given by _stop() causes no work. When Worker_jobs or a
\* SINGLE_SHOT_WAKE_UP Worker_DAQ comes back from its wait and _running is
\* False, its next step is back to the test of the loop, with the device,
\* the counters and the signals untouched, and from there out of the loop;
\* with _running False no _perform_jobs / _perform_DAQ begins.
C17_StopWakeUpCausesNoWork ==
    [][ /\ worker_jobs.pc = "woken" /\ ~worker_jobs.running
           /\ worker_jobs'.pc # "woken"
           => worker_jobs'.pc = "while" /\ UNCHANGED <<dev, qdev, signals>>
        /\ worker_jobs.pc = "while" /\ ~worker_jobs.running
           /\ worker_jobs'.pc # "while"
           => worker_jobs'.pc = "stopping" /\ UNCHANGED <<dev, qdev, signals>>
        /\ ~worker_jobs.running => ~jobs_drain_begins
        /\ worker_DAQ.DAQ_trigger = "SINGLE_SHOT_WAKE_UP"
           => /\ worker_DAQ.pc = "woken" /\ ~worker_DAQ.running
                 /\ worker_DAQ'.pc # "woken"
                 => worker_DAQ'.pc = "while" /\ UNCHANGED <<dev, qdev, signals>>
              /\ worker_DAQ.pc = "while" /\ ~worker_DAQ.running
                 /\ worker_DAQ'.pc # "while"
                 => worker_DAQ'.pc = "stopping" /\ UNCHANGED <<dev, qdev, signals>>
              /\ ~worker_DAQ.running => ~DAQ_cycle_begins
      ]_vars

\* Worker_jobs was stopped in its first wait and has left its loop: no drain
\* has been counted, nothing has been emitted.
C17_Witness ==
    /\ hist.jobs_waited
    /\ worker_jobs.has_stopped
    /\ qdev.update_counter_jobs = 0
    /\ signals.jobs_updated = 0

-----------------------------------------------------------------------------
(* Calls on workers that do not run *)

\* What start_worker_* and quit_worker_* leave alone when they return at
\* once: the device, the counters and threads, the signals, both workers.
program_state == <<dev, qdev, signals, worker_jobs, worker_DAQ>>

\* C18: start_worker_DAQ / start_worker_jobs on a device that is not alive
\* return False and start nothing; the worker they refused to start performs
\* no acquisition and no drain (its counters stay 0, nothing is emitted); and
\* a quit_worker_DAQ / quit_worker_jobs that follows returns True at once,
\* without a stop request and without a wait.
C18_StartRefusedWhenNotAlive ==
    [][ /\ start_worker_DAQ /\ ~dev.is_alive
           => /\ main' = [main_ready EXCEPT !.returned = "False",
                                            !.call = "start_worker_DAQ"]
              /\ UNCHANGED program_state
        /\ start_worker_jobs /\ ~dev.is_alive
           => /\ main' = [main_ready EXCEPT !.returned = "False",
                                            !.call = "start_worker_jobs"]
              /\ UNCHANGED program_state
        /\ "DAQ" \in hist.refused
           => /\ qdev.thread_DAQ = "created"
              /\ worker_DAQ.pc = "created"
              /\ qdev.update_counter_DAQ = 0
              /\ qdev.not_alive_counter_DAQ = 0
              /\ signals.DAQ_updated = 0 /\ signals.connection_lost = 0
              /\ quit_worker_DAQ
                 => /\ main' = [main_ready EXCEPT !.returned = "True",
                                                  !.call = "quit_worker_DAQ"]
                    /\ UNCHANGED program_state
        /\ "jobs" \in hist.refused
           => /\ qdev.thread_jobs = "created"
              /\ worker_jobs.pc = "created"
              /\ qdev.update_counter_jobs = 0
              /\ signals.jobs_updated = 0
              /\ quit_worker_jobs
                 => /\ main' = [main_ready EXCEPT !.returned = "True",
                                                  !.call = "quit_worker_jobs"]
                    /\ UNCHANGED program_state
      ]_vars

\* start_worker_DAQ was refused and quit_worker_DAQ, called after it, has
\* returned True.
C18_Witness ==
    /\ hist.refused = {"DAQ"}
    /\ main = [main_ready EXCEPT !.returned = "True", !.call = "quit_worker_DAQ"]

\* C19: quit_worker_DAQ / quit_worker_jobs on a worker that was never created,
\* or was created and never started, return True at once: no stop request, no
\* wait, no change of the device, the counters, the threads, the signals or
\* the workers. So does quit(), which calls the two one after the other.
C19_QuitWithoutStart ==
    [][ /\ quit_worker_DAQ /\ qdev.thread_DAQ \in {"None", "created"}
           => /\ main' = [main_ready EXCEPT !.returned = "True",
                                            !.call = "quit_worker_DAQ"]
              /\ UNCHANGED program_state
        /\ quit_worker_jobs /\ qdev.thread_jobs \in {"None", "created"}
           => /\ main' = [main_ready EXCEPT !.returned = "True",
                                            !.call = "quit_worker_jobs"]
              /\ UNCHANGED program_state
        /\ DAQ_quit_in_handshake => qdev.thread_DAQ \notin {"None", "created"}
        /\ jobs_quit_in_handshake => qdev.thread_jobs \notin {"None", "created"}
      ]_vars

\* quit_worker_jobs has returned True with Worker_jobs never created and
\* Worker_DAQ created, on a live device, and never started.
C19_Witness ==
    /\ main = [main_ready EXCEPT !.returned = "True", !.call = "quit_worker_jobs"]
    /\ qdev.thread_jobs = "None"
    /\ qdev.thread_DAQ = "created"
    /\ dev.is_alive
    /\ hist.refused = {}

-----------------------------------------------------------------------------
(* DAQ_TRIGGER.CONTINUOUS: pausing *)

\* The worker is inside _perform_DAQ.
DAQ_in_perform == worker_DAQ.pc \in {"lock", "DAQ_function", "unlock", "check"}

\* The CONTINUOUS worker is past the `if init:` block of its first pass.
DAQ_started_up_paused == worker_DAQ.pc = "confirm" \/ DAQ_confirmed

\* C20: a CONTINUOUS worker starts paused. As long as unpause_DAQ() has not
\* been called on the started worker, signal_DAQ_paused has been emitted
\* exactly once (from its start-up on) and no _perform_DAQ has begun, whatever
\* pause_DAQ() or unpause_DAQ() calls came before the start and whatever
\* pause_DAQ() calls came after it. And at any time, while the worker is
\* paused (_paused is True, after its signal_DAQ_paused) and has not read an
\* unpause request (_pause is True), it is not inside _perform_DAQ.
C20_StartsPaused ==
    worker_DAQ.DAQ_trigger = "CONTINUOUS" =>
       /\ ~hist.unpaused
          => /\ signals.DAQ_paused = IF DAQ_started_up_paused THEN 1 ELSE 0
             /\ qdev.update_counter_DAQ = 0
             /\ signals.DAQ_updated = 0
             /\ ~DAQ_in_perform
       /\ DAQ_started_up_paused
          /\ worker_DAQ.paused = TRUE /\ worker_DAQ.pause = TRUE
          => ~DAQ_in_perform

\* The started worker has read two pause requests and no unpause request:
\* it loops, paused, with its one signal_DAQ_paused.
C20_Witness ==
    /\ worker_DAQ.DAQ_trigger = "CONTINUOUS"
    /\ worker_DAQ.has_started
    /\ ~hist.unpaused
    /\ hist.n_pause_calls = 2
    /\ worker_DAQ.events = <<>>
    /\ worker_DAQ.pc = "while"
    /\ worker_DAQ.paused = TRUE
    /\ signals.DAQ_paused = 1

-----------------------------------------------------------------------------
(* Pausing and unpausing of a CONTINUOUS Worker_DAQ, under SpecPause. *)

\* The worker is in its CONTINUOUS loop, running and unpaused.
DAQ_running_unpaused ==
    /\ worker_DAQ.pc \notin {"None", "created"}
    /\ worker_DAQ.DAQ_trigger = "CONTINUOUS"
    /\ ~worker_DAQ.init
    /\ worker_DAQ.running
    /\ worker_DAQ.pause = FALSE
    /\ worker_DAQ.paused = FALSE

\* The pending requests hold a pause request followed by an unpause request.
pause_then_unpause_pending ==
    \E i, j \in 1..Len(worker_DAQ.events) :
        /\ i < j
        /\ worker_DAQ.events[i] = "pause"
        /\ worker_DAQ.events[j] = "unpause"

\* C21 as stated: a pause_DAQ() followed by an unpause_DAQ() on a running,
\* unpaused CONTINUOUS worker is never absorbed: when the worker takes up the
\* pause request in QCoreApplication.processEvents() it is left with _pause
\* set, so that the loop check that follows raises signal_DAQ_paused (never
\* zero notifications because both requests were taken up in one iteration).
C21_PauseIsNeverAbsorbed ==
    [][(/\ DAQ_processEvents
        /\ DAQ_running_unpaused
        /\ pause_then_unpause_pending
        /\ worker_DAQ'.running)
       => worker_DAQ'.pause = TRUE]_vars

\* C21, amended: after start-up signal_DAQ_paused is raised once per change
\* from unpaused to paused that the loop check sees, and by nothing else: a
\* step raises it at most once, and raises it exactly when it is the loop
\* check with _pause set and _paused not set, which sets _paused.  Hence a
\* pause_DAQ() followed by an unpause_DAQ() yields at most one notification
\* (never two), and every notification after the first needs an unpause and a
\* pause request of its own.
C21_PausedNotifiedOncePerPausing ==
    /\ [](signals.DAQ_paused > 0
          => 2 * (signals.DAQ_paused - 1) <= hist.n_pause_calls)
    /\ [][worker_DAQ.pc # "init" =>
          /\ signals'.DAQ_paused \in {signals.DAQ_paused, signals.DAQ_paused + 1}
          /\ signals'.DAQ_paused # signals.DAQ_paused
             <=> /\ worker_DAQ.pc = "branch"
                 /\ worker_DAQ.pause = TRUE
                 /\ worker_DAQ.paused = FALSE
                 /\ worker_DAQ'.paused = TRUE]_vars

\* An unpaused worker was paused again by pause_DAQ(): a second notification.
C21_Witness ==
    /\ worker_DAQ.pc = "while"
    /\ worker_DAQ.DAQ_trigger = "CONTINUOUS"
    /\ ~worker_DAQ.init
    /\ worker_DAQ.paused = TRUE
    /\ signals.DAQ_paused = 2
    /\ hist.n_pause_calls >= 2

\* A pause request is the last request pending at a running, unpaused worker
\* (which, at its loop check, still has an acquisition left in this run).
pause_requested_unpaused ==
    /\ DAQ_running_unpaused
    /\ worker_DAQ.events # <<>>
    /\ worker_DAQ.events[Len(worker_DAQ.events)] = "pause"
    /\ worker_DAQ.pc = "branch" => qdev.update_counter_DAQ < lim.cycles

\* The worker has been through its start-up and its _paused is set.
DAQ_in_paused_state ==
    /\ worker_DAQ.DAQ_trigger = "CONTINUOUS"
    /\ ~worker_DAQ.init
    /\ worker_DAQ.paused = TRUE

\* An unpause or a stop request is pending, or the worker has stopped.
unpause_or_stop_followed ==
    \/ ~worker_DAQ.running
    \/ \E i \in 1..Len(worker_DAQ.events) :
          worker_DAQ.events[i] \in {"unpause", "stop"}

\* C22: a pause_DAQ() requested while the CONTINUOUS worker is running and
\* unpaused, and not followed by an unpause or a stop (a stop request, or the
\* worker stopping itself on a lost connection), leads to the paused state and
\* its signal_DAQ_paused.  A pause that arrives during an acquisition delays
\* the pause by that one acquisition only: the processEvents() that finds the
\* pause request last sets _pause, and no acquisition begins with _pause set.
C22_PauseLeadsToPaused ==
    /\ pause_requested_unpaused
         ~> (DAQ_in_paused_state \/ unpause_or_stop_followed)
    /\ [][(/\ DAQ_processEvents
           /\ pause_requested_unpaused)
          => (worker_DAQ'.pause = TRUE /\ worker_DAQ'.pc = "branch")]_vars
    /\ [][(perform_DAQ_lock /\ worker_DAQ.DAQ_trigger = "CONTINUOUS")
          => worker_DAQ.pause = FALSE]_vars
    /\ [][(/\ DAQ_continuous_branch
           /\ worker_DAQ.pause = TRUE
           /\ worker_DAQ.paused = FALSE)
          => /\ worker_DAQ'.paused = TRUE
             /\ signals'.DAQ_paused = signals.DAQ_paused + 1
             /\ qdev' = qdev]_vars

\* A pause requested after an acquisition, with nothing following it, has
\* paused the worker and raised the second signal_DAQ_paused.
C22_Witness ==
    /\ worker_DAQ.pc = "while"
    /\ worker_DAQ.DAQ_trigger = "CONTINUOUS"
    /\ ~worker_DAQ.init
    /\ worker_DAQ.running
    /\ worker_DAQ.paused = TRUE
    /\ worker_DAQ.events = <<>>
    /\ hist.n_pause_calls = 2
    /\ qdev.update_counter_DAQ >= 1
    /\ signals.DAQ_paused = 2

-----------------------------------------------------------------------------
(* Wake-ups of a SINGLE_SHOT_WAKE_UP Worker_DAQ, under SpecWake. *)

\* A SINGLE_SHOT_WAKE_UP worker exists and is not between the return of its
\* wait and the end of the _perform_DAQ that follows.
DAQ_single_shot_at_rest ==
    /\ worker_DAQ.pc # "None"
    /\ worker_DAQ.DAQ_trigger = "SINGLE_SHOT_WAKE_UP"
    /\ worker_DAQ.pc \notin {"woken", "lock", "DAQ_function", "unlock", "check"}

\* C23: in a run of wake_up_DAQ() calls, every call that finds the worker in
\* its wait results in exactly one _perform_DAQ: when the running worker is
\* at rest, it has performed as many acquisitions as wake-ups have found it
\* waiting.  Each acquisition calls DAQ_function once (if there is one) and
\* raises exactly one of signal_DAQ_updated and signal_connection_lost.  The
\* acquisitions never exceed the wake-ups that found the worker waiting, nor
\* the wake_up_DAQ() calls made.  (Only a _stop() between a wake-up and the
\* `if self._running:` of the woken worker drops an acquisition: the last.)
C23_WakeUpPerformsOnceIfRunning ==
    (worker_DAQ.pc # "None" /\ worker_DAQ.DAQ_trigger = "SINGLE_SHOT_WAKE_UP")
    => /\ qdev.update_counter_DAQ <= hist.woke
       /\ hist.woke <= hist.wake_ups
       /\ hist.woke <= qdev.update_counter_DAQ + 1
       /\ DAQ_single_shot_at_rest =>
            /\ worker_DAQ.running => qdev.update_counter_DAQ = hist.woke
            /\ signals.DAQ_updated + signals.connection_lost
                 = qdev.update_counter_DAQ
            /\ worker_DAQ.DAQ_function # "None"
                 => Len(hist.queries) = qdev.update_counter_DAQ

\* Three wake-ups, one of which did not find the worker waiting: two
\* acquisitions, two notifications, and the worker waits again.
C23_Witness ==
    /\ worker_DAQ.DAQ_trigger = "SINGLE_SHOT_WAKE_UP"
    /\ worker_DAQ.pc = "wait"
    /\ worker_DAQ.DAQ_function # "None"
    /\ hist.wake_ups = 3
    /\ hist.woke = 2
    /\ qdev.update_counter_DAQ = 2
    /\ signals.DAQ_updated = 2

-----------------------------------------------------------------------------
(* Drain requests to Worker_jobs, under SpecRequests. *)

\* Worker_jobs is running and in its wait, and every drain request made so
\* far was delivered while it was in its wait.
jobs_waiting_all_delivered ==
    /\ worker_jobs.pc = "wait"
    /\ worker_jobs.running
    /\ hist.wake_ups = hist.woke

\* C24 as stated: after any sequence of enqueues and of drain requests
\* delivered while the worker is waiting, update_counter_jobs is the number
\* of the drain requests that found a job on the queue.
C24_CounterCountsNonEmptyDrains ==
    jobs_waiting_all_delivered
    => qdev.update_counter_jobs = hist.woke_nonempty

\* C24, amended: update_counter_jobs is the number of drain requests that
\* found the worker in its wait, whether or not they found a job on the
\* queue: it never exceeds that number (a put() on the queue alone triggers
\* no drain), and equals it, as does the number of signal_jobs_updated, when
\* the running worker is back in its wait.  When a drain completes, every
\* job that was on the queue when it began (so every job put before the
\* request) has been executed, each job once and in the order of the put().
C24_CounterCountsDrainRequests ==
    worker_jobs.pc # "None"
    => /\ qdev.update_counter_jobs <= hist.woke
       /\ hist.woke_nonempty <= hist.woke
       /\ hist.woke <= hist.wake_ups
       /\ (worker_jobs.pc = "wait" /\ worker_jobs.running)
          => /\ qdev.update_counter_jobs = hist.woke
             /\ signals.jobs_updated = hist.woke
       /\ worker_jobs.pc \in {"unlock", "emit"}
          => /\ Len(hist.executed) >= hist.drain_enq
             /\ JobIds(hist.executed) = Range1(1, Len(hist.executed))

\* A drain request on the empty queue, two jobs put on the queue, a second
\* drain request: two drains, the second of which has executed the two jobs.
C24_Witness ==
    /\ jobs_waiting_all_delivered
    /\ hist.woke = 2
    /\ hist.woke_nonempty = 1
    /\ qdev.update_counter_jobs = 2
    /\ hist.drain_from = 0
    /\ Len(hist.executed) = 2

\* Worker_jobs exists and is not between the return of its wait and the
\* beginning of the drain that follows.
jobs_not_waking == worker_jobs.pc \notin {"None", "woken", "lock"}

\* C25: the drain requests (process_jobs_queue, send) delivered before the
\* worker wakes from one wait produce exactly one drain: when the running
\* worker is not about to begin a drain, it has done one drain for each wait
\* that a request has ended.  A request that does not find the worker in its
\* wait leaves the worker as it is (it is not queued up), and the drains
\* done never exceed the waits ended by a request, nor the requests made.
\* (Only a _stop() between a request and the `if self._running:` of the
\* woken worker drops a drain: the last.)
C25_RequestsCoalesce ==
    /\ [](worker_jobs.pc # "None"
          => /\ qdev.update_counter_jobs <= hist.woke
             /\ hist.woke <= qdev.update_counter_jobs + 1
             /\ hist.woke <= hist.wake_ups
             /\ (jobs_not_waking /\ worker_jobs.running)
                => qdev.update_counter_jobs = hist.woke)
    /\ [][((process_jobs_queue \/ send_process) /\ worker_jobs.pc # "wait")
          => worker_jobs' = worker_jobs]_vars

\* Three drain requests before the worker woke from its first wait: one
\* drain, and the worker waits again.
C25_Witness ==
    /\ worker_jobs.pc = "wait"
    /\ worker_jobs.running
    /\ hist.wake_ups = 3
    /\ hist.woke = 1
    /\ qdev.update_counter_jobs = 1
    /\ signals.jobs_updated = 1

-----------------------------------------------------------------------------
(* The device lock and the signals of the workers. *)

\* Worker_DAQ raises signal_DAQ_updated or signal_connection_lost in the step
\* taken; Worker_jobs raises signal_jobs_updated in the step taken.
DAQ_raises_signal ==
    \/ signals'.DAQ_updated # signals.DAQ_updated
    \/ signals'.connection_lost # signals.connection_lost
jobs_raises_signal == signals'.jobs_updated # signals.jobs_updated

\* C26: a worker does not hold dev.mutex when it raises signal_DAQ_updated,
\* signal_connection_lost or signal_jobs_updated: the locker is unlocked
\* before the emit() on every path of _perform_DAQ (DAQ_function returning,
\* failing or raising, the threshold reached or not) and of _perform_jobs.
C26_NoSignalUnderLock ==
    [][/\ DAQ_raises_signal
          => ("DAQ" \notin dev.mutex /\ "DAQ" \notin dev'.mutex)
       /\ jobs_raises_signal
          => ("jobs" \notin dev.mutex /\ "jobs" \notin dev'.mutex)]_vars

\* The threshold was reached by a failure of DAQ_function: the lock is free
\* and signal_connection_lost has been raised.
C26_Witness ==
    /\ signals.connection_lost = 1
    /\ ~dev.is_alive
    /\ hist.queries # <<>>
    /\ dev.mutex = {}
    /\ worker_DAQ.pc # "check"

-----------------------------------------------------------------------------
(* The QTimer of an INTERNAL_TIMER Worker_DAQ. *)

\* self._timer is started or stopped in the step taken.
DAQ_timer_switched == worker_DAQ'.timer_active # worker_DAQ.timer_active

\* C27: the timer of an INTERNAL_TIMER worker is started and stopped on the
\* thread of the worker only: it is started by _do_work, and stopped by
\* _stop() either as the slot of the queued _request_worker_DAQ_stop or
\* called by _perform_DAQ on a lost connection.  quit_worker_DAQ does not
\* touch the timer: it leaves the worker as it is but for the stop request
\* that it queues.
C27_TimerOnWorkerThread ==
    [][/\ DAQ_timer_switched
          => \/ DAQ_do_work /\ worker_DAQ'.timer_active
             \/ DAQ_event /\ Head(worker_DAQ.events) = "stop"
                          /\ ~worker_DAQ'.timer_active
             \/ perform_DAQ_check /\ connection_is_lost(worker_DAQ, qdev)
                                  /\ ~worker_DAQ'.timer_active
       /\ (quit_worker_DAQ /\ worker_DAQ.DAQ_trigger = "INTERNAL_TIMER")
          => \/ worker_DAQ' = worker_DAQ
             \/ worker_DAQ' = [worker_DAQ EXCEPT !.events = Append(@, "stop")]
      ]_vars

\* quit_worker_DAQ has asked a live INTERNAL_TIMER worker to stop, and the
\* worker has taken up the request and stopped its timer.
C27_Witness ==
    /\ worker_DAQ.DAQ_trigger = "INTERNAL_TIMER"
    /\ worker_DAQ.pc = "evloop"
    /\ hist.stop_requested
    /\ dev.is_alive
    /\ worker_DAQ.events = <<>>
    /\ worker_DAQ.has_stopped
    /\ ~worker_DAQ.timer_active
    /\ qdev.update_counter_DAQ = 1

-----------------------------------------------------------------------------
(* Jobs that fail, under SpecJobs. *)

\* The job in hand is executed in the step taken, and its execution raises.
job_raises ==
    /\ perform_jobs_job
    /\ Last(hist'.executed).outcome \in {"caught", "uncaught"}

\* C28 as stated: a job whose execution raises never halts Worker_jobs,
\* whether func(*args) was called or self.jobs_function(func, args): the
\* exception stays inside the loop body, the lock stays with the drain, and
\* the drain goes on to the next get_nowait() (and from there to the
\* sentinel, the unlock and signal_jobs_updated).
C28_RaisingJobNeverHalts ==
    [][job_raises
       => /\ worker_jobs'.pc = "get"
          /\ "jobs" \in dev'.mutex]_vars

\* The job in hand is not callable and there is no jobs_function.
job_is_illegal ==
    /\ worker_jobs.pc = "job"
    /\ worker_jobs.jobs_function = "None"
    /\ worker_jobs.job.func = "str"

\* C29: with jobs_function = None a job whose func is not callable (a str)
\* has been taken off the queue, is reported and not called, and the drain
\* goes on with the next get_nowait(), lock held and counters as they were.
\* The drain has handled every job that was on the queue when it began,
\* has incremented update_counter_jobs once, and raises signal_jobs_updated
\* once.
C29_IllegalJobIsSkipped ==
    /\ [][(perform_jobs_job /\ job_is_illegal)
          => /\ Last(hist'.executed) =
                   [id |-> worker_jobs.job.id, outcome |-> "illegal"]
             /\ worker_jobs'.pc = "get"
             /\ worker_jobs'.queue = worker_jobs.queue
             /\ \A i \in 1..Len(worker_jobs.queue) :
                   worker_jobs.queue[i].id # worker_jobs.job.id
             /\ "jobs" \in dev'.mutex
             /\ qdev' = qdev
             /\ signals' = signals]_vars
    /\ []((worker_jobs.pc # "None" /\ worker_jobs.jobs_function = "None")
          => /\ signals.jobs_updated =
                   qdev.update_counter_jobs
                     - (IF worker_jobs.pc \in jobs_in_drain THEN 1 ELSE 0)
             /\ worker_jobs.pc \in {"unlock", "emit"}
                => Len(hist.executed) >= hist.drain_enq)

\* The first drain has skipped a str job and executed the callable job
\* behind it, and is about to raise signal_jobs_updated.
C29_Witness ==
    /\ worker_jobs.pc = "emit"
    /\ worker_jobs.jobs_function = "None"
    /\ qdev.update_counter_jobs = 1
    /\ signals.jobs_updated = 0
    /\ Len(hist.executed) = 2
    /\ hist.executed[1].outcome = "illegal"
    /\ hist.executed[2].outcome = "done"

-----------------------------------------------------------------------------
(* pause_DAQ, unpause_DAQ and wake_up_DAQ without a worker to serve them. *)

\* A Worker_DAQ without the signals queued to its thread.
DAQ_without_events(w) == [w EXCEPT !.events = <<>>]

\* There is no Worker_DAQ, or its trigger is not t.
DAQ_trigger_is_not(t) ==
    worker_DAQ.pc = "None" \/ worker_DAQ.DAQ_trigger # t

\* The device with its lock, the counters, the signals raised and
\* Worker_jobs stay as they are in the step taken.
DAQ_request_frame == UNCHANGED <<dev, qdev, signals, worker_jobs>>

\* C30: pause_DAQ(), unpause_DAQ() and wake_up_DAQ() do nothing when no
\* Worker_DAQ was created or when its trigger does not match (CONTINUOUS for
\* the first two, SINGLE_SHOT_WAKE_UP for the last): the flags and the
\* position of the worker, the counters, dev.mutex and the signals raised
\* stay as they are, and no _perform_DAQ begins.  The (un)pause request queued
\* to a worker of another trigger changes nothing either when its slot runs.
C30_MismatchedRequestsDoNothing ==
    [][/\ ((\E b \in BOOLEAN : pause_DAQ(b)) /\ DAQ_trigger_is_not("CONTINUOUS"))
          => /\ DAQ_request_frame
             /\ DAQ_without_events(worker_DAQ') = DAQ_without_events(worker_DAQ)
             /\ worker_DAQ.pc = "None" => worker_DAQ' = worker_DAQ
       /\ (wake_up_DAQ /\ DAQ_trigger_is_not("SINGLE_SHOT_WAKE_UP"))
          => /\ DAQ_request_frame
             /\ worker_DAQ' = worker_DAQ
       /\ (/\ DAQ_event
           /\ Head(worker_DAQ.events) \in {"pause", "unpause"}
           /\ worker_DAQ.DAQ_trigger # "CONTINUOUS")
          => /\ DAQ_request_frame
             /\ DAQ_without_events(worker_DAQ') = DAQ_without_events(worker_DAQ)
      ]_vars

\* A started INTERNAL_TIMER worker has been sent a pause request, which is
\* queued to its thread: no flag is set and no acquisition has been made.
C30_Witness ==
    /\ worker_DAQ.DAQ_trigger = "INTERNAL_TIMER"
    /\ worker_DAQ.pc = "evloop"
    /\ hist.n_pause_calls = 1
    /\ worker_DAQ.events = <<"pause">>
    /\ worker_DAQ.pause = "None"
    /\ worker_DAQ.paused = "None"
    /\ worker_DAQ.timer_active
    /\ qdev.update_counter_DAQ = 0
    /\ signals.DAQ_paused = 0

-----------------------------------------------------------------------------
(* The calls of the main thread that do not wait for a worker. *)

\* The main thread is between two calls and a worker holds dev.mutex.
main_ready_worker_locked == main.pc = "ready" /\ dev.mutex # {}

\* One of add_to_jobs_queue, send, process_jobs_queue, wake_up_DAQ,
\* pause_DAQ and unpause_DAQ takes a step.
request_call ==
    \/ \E f \in Instructions : add_to_jobs_queue(f)
    \/ \E f \in Instructions : send_add(f)
    \/ send_process
    \/ process_jobs_queue
    \/ wake_up_DAQ
    \/ \E b \in BOOLEAN : pause_DAQ(b)

\* The run has a wake-up request left (where they are counted), a drain
\* left, an acquisition left.
wake_up_left == lim.wakes > 0 => hist.wake_ups < lim.wakes
drain_left == qdev.update_counter_jobs < lim.drains
cycle_left == qdev.update_counter_DAQ < lim.cycles

\* C31: add_to_jobs_queue, send, process_jobs_queue, wake_up_DAQ, pause_DAQ
\* and unpause_DAQ never wait for a worker.  While a worker holds dev.mutex
\* in the middle of _perform_DAQ or _perform_jobs, each of them can be called
\* and can return (as far as the run has calls left), and send() that has
\* put its job goes on to _process_queue(); none of them takes or waits for
\* dev.mutex, and the main thread is never left in a wait by them.
C31_RequestsNeverBlock ==
    /\ [](main_ready_worker_locked
          => /\ hist.n_enq < lim.jobs
                => ENABLED add_to_jobs_queue("callable")
             /\ (hist.n_enq < lim.jobs /\ drain_left /\ wake_up_left)
                => ENABLED send_add("callable")
             /\ (drain_left /\ wake_up_left)
                => ENABLED process_jobs_queue
             /\ (cycle_left /\ wake_up_left)
                => ENABLED wake_up_DAQ
             /\ hist.n_pause_calls < lim.pauses
                => (ENABLED pause_DAQ(TRUE) /\ ENABLED pause_DAQ(FALSE)))
    /\ [](main.pc = "send_process" => ENABLED send_process)
    /\ [][request_call
          => /\ dev' = dev
             /\ main'.pc \in {"ready", "send_process"}]_vars

\* Worker_jobs holds dev.mutex in the middle of its first drain; meanwhile
\* add_to_jobs_queue() has put a job on the queue and process_jobs_queue()
\* has returned without waking anybody.
C31_Witness ==
    /\ main.pc = "ready"
    /\ "jobs" \in dev.mutex
    /\ worker_jobs.pc \in {"get", "job", "put"}
    /\ qdev.update_counter_jobs = 1
    /\ hist.n_enq > hist.drain_enq
    /\ hist.wake_ups = 2
    /\ hist.woke = 1

\* A misuse call takes a step: create_worker_DAQ or create_worker_jobs with
\* no device attached; start_worker_DAQ or start_worker_jobs before the
\* worker was created; attach_device on a QDeviceIO that has its device.
create_without_device ==
    /\ is_NoDevice(dev)
    /\ \/ \E t \in DAQ_TRIGGER, f \in {"None", "callable"}, k \in 0..lim.critical :
             QDeviceIO_create_worker_DAQ(t, f, k)
       \/ \E f \in {"None", "set"} : QDeviceIO_create_worker_jobs(f)
start_before_create ==
    \/ qdev.thread_DAQ = "None" /\ QDeviceIO_start_worker_DAQ
    \/ qdev.thread_jobs = "None" /\ QDeviceIO_start_worker_jobs
attach_device_twice == ~is_NoDevice(dev) /\ attach_device

\* The call ends the process with the exit code and has made or started no
\* worker and no thread.
fatal_with(code) ==
    /\ main'.pc = "exited" /\ main'.returned = code
    /\ UNCHANGED <<dev, qdev, worker_jobs, worker_DAQ, signals>>

\* create_worker_* without a device ends the process with exit code 99 and
\* start_worker_* before create_worker_* with exit code 404; neither makes or
\* starts a worker first, no worker exists without a device, and no thread
\* takes a step once the process has ended.
C32_CreateAndStartMisuseIsFatal ==
    /\ [][/\ create_without_device => fatal_with("99")
          /\ start_before_create => fatal_with("404")]_vars
    /\ [](is_NoDevice(dev) => worker_DAQ.pc = "None" /\ worker_jobs.pc = "None")
    /\ [][process_runs]_vars

\* C32: every misuse call is fatal and leaves no worker running:
\* create_worker_DAQ and create_worker_jobs with no device attached end the
\* process with exit code 99, start_worker_DAQ and start_worker_jobs before
\* the corresponding create with exit code 404, and attaching a device a
\* second time with exit code 22; none of them makes or starts a worker
\* thread first, and no thread takes a step once the process has ended.
C32_MisuseIsFatal ==
    /\ [][/\ create_without_device => fatal_with("99")
          /\ start_before_create => fatal_with("404")
          /\ attach_device_twice => fatal_with("22")]_vars
    /\ [][process_runs]_vars

\* A start_worker_DAQ before create_worker_DAQ has ended the process while
\* Worker_jobs was in its wait.
C32_Witness ==
    /\ main = sys_exit("404", "start_worker_DAQ")
    /\ worker_jobs.pc = "wait"
    /\ qdev.thread_jobs = "running"

\* _stop() has set _running = False of a CONTINUOUS worker.
DAQ_continuous_stop_flag ==
    /\ worker_DAQ.DAQ_trigger = "CONTINUOUS"
    /\ ~worker_DAQ.running

\* How far the thread of the worker w is towards the end of _do_work: 0 in
\* the body of the loop ahead of _perform_DAQ, 1 in _perform_DAQ, 2 at the
\* check of `while self._running:` and behind the loop.
DAQ_stop_rank(w) ==
    IF w.pc \in {"while", "stopping", "evloop"} THEN 2
    ELSE IF w.pc \in {"lock", "DAQ_function", "unlock", "check"} THEN 1
    ELSE 0

\* The run has no acquisition left for a worker that is about to begin one.
DAQ_out_of_cycles == worker_DAQ.pc = "branch" /\ ~cycle_left

\* C33: CONTINUOUS: once _stop() has set _running = False the loop ends at its
\* next check of `while self._running:`, whether the worker is paused or
\* acquiring. The worker never goes back from _perform_DAQ or from the check
\* into the body of the loop, so at most one _perform_DAQ begins with the
\* flag set, and the worker then reaches the end of _do_work, where it
\* schedules the wakeAll() of "stopped" and sets _has_stopped.
C33_ContinuousStopsAtNextCheck ==
    /\ [][DAQ_continuous_stop_flag
          => DAQ_stop_rank(worker_DAQ') >= DAQ_stop_rank(worker_DAQ)]_vars
    /\ [][(DAQ_do_work_while /\ DAQ_continuous_stop_flag)
          => worker_DAQ'.pc = "stopping"]_vars
    /\ DAQ_continuous_stop_flag
         ~> (worker_DAQ.has_stopped \/ DAQ_out_of_cycles)

\* quit_worker_DAQ() has stopped an unpaused worker that made one
\* acquisition, and the worker has left its loop.
C33_Witness ==
    /\ DAQ_continuous_stop_flag
    /\ hist.stop_requested
    /\ worker_DAQ.paused = FALSE
    /\ qdev.update_counter_DAQ = 1
    /\ worker_DAQ.has_stopped
    /\ worker_DAQ.pc = "evloop"

\* The attributes of QDeviceIO that _perform_DAQ writes.
qdev_counters_DAQ(q) ==
    <<q.update_counter_DAQ, q.not_alive_counter_DAQ,
      q.obtained_DAQ_interval_ms, q.obtained_DAQ_rate_Hz>>

\* C34: update_counter_DAQ, not_alive_counter_DAQ and the obtained DAQ
\* interval and rate are written by _perform_DAQ of Worker_DAQ only, and
\* update_counter_jobs by _perform_jobs of Worker_jobs only, each while that
\* worker and no other thread holds dev.mutex; every other step of the main
\* thread and of the workers leaves them as they are.
C34_CountersSingleWriterUnderLock ==
    [][/\ qdev_counters_DAQ(qdev') # qdev_counters_DAQ(qdev)
            => /\ perform_DAQ_lock \/ perform_DAQ_function
               /\ dev'.mutex = {"DAQ"}
               /\ qdev'.update_counter_jobs = qdev.update_counter_jobs
       /\ qdev'.update_counter_jobs # qdev.update_counter_jobs
            => /\ perform_jobs_lock
               /\ dev'.mutex = {"jobs"}]_vars

\* Both workers have written their counters: Worker_jobs has begun a drain
\* while Worker_DAQ, after a failed query, waits for dev.mutex.
C34_Witness ==
    /\ qdev.update_counter_jobs = 1
    /\ qdev.update_counter_DAQ = 1
    /\ qdev.not_alive_counter_DAQ = 1
    /\ dev.mutex = {"jobs"}
    /\ worker_jobs.pc \in {"get", "job", "put", "unlock"}

\* Worker_jobs is in _perform_jobs, its drain is not over.
jobs_drain_in_flight == worker_jobs.pc \in jobs_in_drain

\* With the exception of jobs_function left aside (C28), which ends a drain
\* and the worker without signal_jobs_updated: a woken, running worker goes
\* into one _perform_jobs; _perform_jobs adds one to update_counter_jobs at
\* its begin and emits signal_jobs_updated once at its end, and nothing else
\* changes either; outside _perform_jobs the counter is the number of signals.
C35_DrainsCountedUnlessCrashed ==
    /\ [][(jobs_woken /\ worker_jobs.running) => worker_jobs'.pc = "lock"]_vars
    /\ [][/\ qdev'.update_counter_jobs # qdev.update_counter_jobs
             => /\ perform_jobs_lock
                /\ qdev'.update_counter_jobs = qdev.update_counter_jobs + 1
          /\ signals'.jobs_updated # signals.jobs_updated
             => /\ perform_jobs_emit
                /\ signals'.jobs_updated = signals.jobs_updated + 1]_vars
    /\ []((~jobs_drain_in_flight /\ worker_jobs.pc # "crashed")
             => qdev.update_counter_jobs = signals.jobs_updated)
    /\ [](jobs_drain_in_flight
             => qdev.update_counter_jobs = signals.jobs_updated + 1)

\* C35 as stated: every wake-up of a running Worker_jobs performs exactly one
\* drain, every drain adds one to update_counter_jobs and emits exactly one
\* signal_jobs_updated, and whenever no drain is in flight the counter is
\* the number of signal_jobs_updated emitted.
C35_CounterEqualsNotifications ==
    /\ [][(jobs_woken /\ worker_jobs.running) => worker_jobs'.pc = "lock"]_vars
    /\ [][qdev'.update_counter_jobs # qdev.update_counter_jobs
             => /\ perform_jobs_lock
                /\ qdev'.update_counter_jobs = qdev.update_counter_jobs + 1]_vars
    /\ [](~jobs_drain_in_flight
             => qdev.update_counter_jobs = signals.jobs_updated)

\* The worker w has been stopped by _stop(): its timer is stopped
\* (INTERNAL_TIMER) or its _running is False (the other two triggers).
DAQ_is_stopped(w) ==
    IF w.DAQ_trigger = "INTERNAL_TIMER" THEN ~w.timer_active /\ w.has_stopped
    ELSE ~w.running

\* not_alive_counter_DAQ has reached critical_not_alive_count > 0.
DAQ_at_threshold ==
    /\ worker_DAQ.critical_not_alive_count > 0
    /\ qdev.not_alive_counter_DAQ >= worker_DAQ.critical_not_alive_count

\* C36: with critical_not_alive_count = k > 0, not_alive_counter_DAQ never
\* exceeds k. The counter changes only where _perform_DAQ has called
\* DAQ_function, by one up or back to 0. The _perform_DAQ in which it reaches
\* k stops the worker in its check, and no _perform_DAQ begins after that.
C36_NotAliveCounterStopsAtThreshold ==
    /\ []((worker_DAQ.pc # "None" /\ worker_DAQ.critical_not_alive_count > 0)
            => qdev.not_alive_counter_DAQ <= worker_DAQ.critical_not_alive_count)
    /\ [][qdev'.not_alive_counter_DAQ # qdev.not_alive_counter_DAQ
            => /\ perform_DAQ_function
               /\ \/ qdev'.not_alive_counter_DAQ = qdev.not_alive_counter_DAQ + 1
                  \/ qdev'.not_alive_counter_DAQ = 0]_vars
    /\ [][(perform_DAQ_function /\ DAQ_at_threshold')
            => worker_DAQ'.pc = "unlock"]_vars
    /\ [][(perform_DAQ_unlock /\ DAQ_at_threshold)
            => worker_DAQ'.pc = "check"]_vars
    /\ [][(perform_DAQ_check /\ DAQ_at_threshold)
            => /\ DAQ_is_stopped(worker_DAQ')
               /\ signals'.connection_lost = signals.connection_lost + 1]_vars
    /\ [][perform_DAQ_lock => ~DAQ_at_threshold]_vars

\* k = 2: a failure, a success that set the counter back, then two failures
\* in a row; the SINGLE_SHOT_WAKE_UP worker has left its loop.
C36_Witness ==
    /\ worker_DAQ.DAQ_trigger = "SINGLE_SHOT_WAKE_UP"
    /\ worker_DAQ.critical_not_alive_count = 2
    /\ qdev.not_alive_counter_DAQ = 2
    /\ Len(hist.queries) = 4
    /\ hist.queries[2] = "True"
    /\ ~worker_DAQ.running
    /\ worker_DAQ.has_stopped
    /\ ~hist.stop_requested

\* Worker_DAQ has lost the connection: signal_connection_lost is out.
connection_lost_emitted == signals.connection_lost > 0

\* Worker_jobs has started and quit_worker_jobs() has not called its _stop().
jobs_started_not_quit == worker_jobs.has_started /\ worker_jobs.running

\* The thread of Worker_jobs is in the loop of _do_work.
jobs_in_loop ==
    worker_jobs.pc \in {"while", "before_wait", "wait", "woken", "lock"}
                         \cup jobs_in_drain

\* The check of _perform_DAQ that finds the connection lost touches nothing
\* of Worker_jobs and holds no dev.mutex; after it, a drain request still
\* wakes a waiting Worker_jobs, which goes into _perform_jobs and takes the
\* lock as before.
C37_ConnectionLostLeavesJobsWorker ==
    /\ [][perform_DAQ_check
          => /\ worker_jobs' = worker_jobs
             /\ qdev'.thread_jobs = qdev.thread_jobs
             /\ dev'.mutex = dev.mutex
             /\ "DAQ" \notin dev.mutex]_vars
    /\ [](connection_lost_emitted => "DAQ" \notin dev.mutex)
    /\ [][(connection_lost_emitted /\ worker_jobs.running /\ ~worker_jobs'.running)
          => quit_worker_jobs]_vars
    /\ [][(connection_lost_emitted /\ process_jobs_queue /\ worker_jobs.pc = "wait")
          => worker_jobs'.pc = "woken"]_vars
    /\ [][(connection_lost_emitted /\ jobs_woken /\ worker_jobs.running)
          => worker_jobs'.pc = "lock"]_vars
    /\ []((connection_lost_emitted /\ worker_jobs.pc = "lock" /\ dev.mutex = {})
          => ENABLED perform_jobs_lock)

\* C37 as stated: reaching the threshold stops Worker_DAQ only. After
\* signal_connection_lost Worker_jobs remains running, that is in the loop of
\* _do_work, and still drains at a later drain request, until
\* quit_worker_jobs() is called.
C37_JobsWorkerRunsAfterConnectionLost ==
    /\ [][perform_DAQ_check => worker_jobs' = worker_jobs]_vars
    /\ []((connection_lost_emitted /\ jobs_started_not_quit) => jobs_in_loop)
    /\ [][(connection_lost_emitted /\ process_jobs_queue /\ worker_jobs.pc = "wait")
          => worker_jobs'.pc = "woken"]_vars

\* C38: in _perform_jobs every get_nowait() finds the queue non-empty, with
\* the sentinel on it behind the jobs to take, so that queue.Empty is never
\* raised: each get_nowait() yields a job or the sentinel, however many jobs
\* are on the queue and wherever add_to_jobs_queue() and send() fall in
\* between.
C38_GetNeverFindsEmptyQueue ==
    /\ [](worker_jobs.pc = "get"
            => /\ worker_jobs.queue # <<>>
               /\ CountSentinels(worker_jobs.queue) = 1)
    /\ [][perform_jobs_get
            => /\ worker_jobs'.pc \in {"job", "put"}
               /\ worker_jobs'.job = Head(worker_jobs.queue)
               /\ dev' = dev]_vars

\* The second pass of the second drain is at its get_nowait(), with two jobs
\* executed and one more job put on the queue during this drain.
C38_Witness ==
    /\ worker_jobs.pc = "get"
    /\ worker_jobs.i = 1
    /\ qdev.update_counter_jobs = 2
    /\ Len(hist.executed) = 2
    /\ hist.n_enq = 3
    /\ hist.drain_enq = 2
    /\ Len(worker_jobs.queue) = 2

=============================================================================
